---- MODULE Spec2Model ----
(***************************************************************************)
(* Model of the Grok MCP server: the tool-call pipeline (handleToolCall)   *)
(* and the upstream client (GrokClient) with its cache and limiter.        *)
(*                                                                         *)
(* JSON-like values are tagged records:                                    *)
(*   undefined, null, string (a sequence of one-character strings),        *)
(*   number (an integer count of tenths, or NaN), boolean, array, object   *)
(*   (a function from keys to values; a key is a sequence of characters).  *)
(* A text (an error message, a response text) is a sequence of string      *)
(* fragments; concatenation of texts is \o.                                *)
(***************************************************************************)
EXTENDS Integers, Sequences, FiniteSets, TLC

(***************************************************************************)
(* Bounds of the model.                                                    *)
(***************************************************************************)
MaxCalls == 3
MaxTicks == 4
MaxStrLen == 2

(***************************************************************************)
(* JSON-like values.                                                       *)
(***************************************************************************)
Undef == [t |-> "undefined"]
Null == [t |-> "null"]
Str(s) == [t |-> "string", s |-> s]
Num(n) == [t |-> "number", nan |-> FALSE, n |-> n]
NaN == [t |-> "number", nan |-> TRUE, n |-> 0]
Bool(b) == [t |-> "boolean", b |-> b]
Arr(a) == [t |-> "array", a |-> a]
Obj(o) == [t |-> "object", o |-> o]
EmptyObj == Obj(<<>>)

IsStr(v) == v.t = "string"
IsNum(v) == v.t = "number"
IsObj(v) == v.t = "object"

\* obj[k] of JavaScript: undefined when the key is absent
Get(v, k) == IF k \in DOMAIN v.o THEN v.o[k] ELSE Undef

\* the characters of a key or of a string value
Chars(str) == <<>> \o str

\* keys of the tool arguments, spelled out as characters
K_question == <<"q","u","e","s","t","i","o","n">>
K_context == <<"c","o","n","t","e","x","t">>
K_system_prompt == <<"s","y","s","t","e","m","_","p","r","o","m","p","t">>
K_temperature == <<"t","e","m","p","e","r","a","t","u","r","e">>
K_max_tokens == <<"m","a","x","_","t","o","k","e","n","s">>
K_include_search == <<"i","n","c","l","u","d","e","_","s","e","a","r","c","h">>
K_model == <<"m","o","d","e","l">>
K_messages == <<"m","e","s","s","a","g","e","s">>
K_role == <<"r","o","l","e">>
K_content == <<"c","o","n","t","e","n","t">>
K_query == <<"q","u","e","r","y">>
K_max_results == <<"m","a","x","_","r","e","s","u","l","t","s">>
K_include_images == <<"i","n","c","l","u","d","e","_","i","m","a","g","e","s">>
K_include_news == <<"i","n","c","l","u","d","e","_","n","e","w","s">>
K_time_filter == <<"t","i","m","e","_","f","i","l","t","e","r">>

(***************************************************************************)
(* sanitize: strip < > " ' ` from strings, recurse into arrays and         *)
(* objects, drop keys that start with $ or contain __proto__.              *)
(***************************************************************************)
\* the backtick character (a string literal cannot hold it) is written BACKTICK
Backtick == "BACKTICK"
StrippedChars == {"<", ">", "\"", "'", Backtick}
ProtoChars == <<"_","_","p","r","o","t","o","_","_">>

\* String.prototype.replace(/[<>"'`]/g, ''): every occurrence is removed
StripAll(s) == SelectSeq(s, LAMBDA ch : ch \notin StrippedChars)

\* the same replace without the g flag: only the first occurrence is removed
StripFirst(s) ==
    LET hits == {i \in 1..Len(s) : s[i] \in StrippedChars}
    IN IF hits = {} THEN s
       ELSE LET f == CHOOSE i \in hits : \A j \in hits : i <= j
            IN SubSeq(s, 1, f - 1) \o SubSeq(s, f + 1, Len(s))

ReplaceStripped(s) == StripAll(s)

\* k.startsWith('$')
StartsWithDollar(k) == Len(k) >= 1 /\ k[1] = "$"

\* k.includes('__proto__')
IncludesProto(k) ==
    \E i \in 1..Len(k) :
        /\ i + Len(ProtoChars) - 1 <= Len(k)
        /\ SubSeq(k, i, i + Len(ProtoChars) - 1) = ProtoChars

DroppedKey(k) == StartsWithDollar(k) \/ IncludesProto(k)

RECURSIVE sanitize(_)
sanitize(obj) ==
    IF obj.t = "string" THEN Str(ReplaceStripped(obj.s))
    ELSE IF obj.t = "array" THEN Arr([i \in 1..Len(obj.a) |-> sanitize(obj.a[i])])
    ELSE IF obj.t = "object"
         THEN Obj([k \in {j \in DOMAIN obj.o : ~DroppedKey(j)} |-> sanitize(obj.o[k])])
    ELSE obj

(***************************************************************************)
(* Errors: a thrown value has the name of its class and a message.         *)
(***************************************************************************)
Err(name, message) == [name |-> name, message |-> message]
ValidationError(message) == Err("ValidationError", message)
AuthError(message) == Err("AuthError", message)
ExternalServiceError(message) == Err("ExternalServiceError", message)
TypeError(message) == Err("TypeError", message)
PlainError(message) == Err("Error", message)

\* outcome of a synchronous computation: a value or a thrown error
Ok(v) == [threw |-> FALSE, val |-> v, err |-> Err("none", <<>>)]
Threw(e) == [threw |-> TRUE, val |-> Undef, err |-> e]

(***************************************************************************)
(* checkAuth: the shared-secret check (token and secret are strings; the   *)
(* absent token and the unset secret are Undef).                           *)
(***************************************************************************)
Falsy(v) ==
    \/ v.t \in {"undefined", "null"}
    \/ v.t = "boolean" /\ ~v.b
    \/ v.t = "number" /\ (v.nan \/ v.n = 0)
    \/ v.t = "string" /\ Len(v.s) = 0

UnauthorizedMsg == <<"Unauthorized: invalid or missing auth token">>

\* request?.params?.auth || request?.auth
AuthToken(request) ==
    IF ~Falsy(request.params.auth) THEN request.params.auth ELSE request.auth

checkAuth(request, SHARED_SECRET) ==
    LET token == AuthToken(request)
    IN IF Falsy(token) \/ Falsy(SHARED_SECRET)
       THEN Threw(AuthError(UnauthorizedMsg))
       ELSE IF Len(token.s) # Len(SHARED_SECRET.s) \/ token.s # SHARED_SECRET.s
            THEN Threw(AuthError(UnauthorizedMsg))
            ELSE Ok(Undef)

(***************************************************************************)
(* The zod schemas of the three tools with arguments.                      *)
(***************************************************************************)
zString(v) == v.t = "string"
zNumber(v) == v.t = "number" /\ ~v.nan
zBoolean(v) == v.t = "boolean"
zOptional(v, ok) == v.t = "undefined" \/ ok
\* numbers are counts of tenths
zRange(v, lo, hi) == zNumber(v) /\ lo * 10 <= v.n /\ v.n <= hi * 10
zInt(v) == zNumber(v) /\ v.n % 10 = 0
zEnum(v, names) == zString(v) /\ v.s \in names

Roles == {<<"system">>, <<"user">>, <<"assistant">>}
TimeFilters == {<<"day">>, <<"week">>, <<"month">>, <<"year">>, <<"all">>}

\* the fields a schema keeps (zod strips unknown keys)
Pick(x, keys) == [k \in keys |-> Get(x, k)]

AskKeys == {K_question, K_context, K_system_prompt, K_temperature, K_max_tokens, K_include_search, K_model}
ChatKeys == {K_messages, K_model, K_temperature, K_max_tokens}
SearchKeys == {K_query, K_max_results, K_include_images, K_include_news, K_time_filter}

\* z.string().min(1, 'Question is required')
\* a question schema without min(1)
zQuestionAnyLength(v) == zString(v)

zQuestion(v) == zString(v) /\ Len(v.s) >= 1

grokAskSchema(x) ==
    /\ x.t = "object"
    /\ zQuestion(Get(x, K_question))
    /\ zOptional(Get(x, K_context), zString(Get(x, K_context)))
    /\ zOptional(Get(x, K_system_prompt), zString(Get(x, K_system_prompt)))
    /\ zOptional(Get(x, K_temperature), zRange(Get(x, K_temperature), 0, 1))
    /\ zOptional(Get(x, K_max_tokens), zRange(Get(x, K_max_tokens), 1, 8000))
    /\ zOptional(Get(x, K_include_search), zBoolean(Get(x, K_include_search)))
    /\ zOptional(Get(x, K_model), zString(Get(x, K_model)))

zMessage(m) ==
    /\ m.t = "object"
    /\ zEnum(Get(m, K_role), Roles)
    /\ zString(Get(m, K_content))

grokChatSchema(x) ==
    /\ x.t = "object"
    /\ Get(x, K_messages).t = "array"
    /\ \A i \in 1..Len(Get(x, K_messages).a) : zMessage(Get(x, K_messages).a[i])
    /\ zOptional(Get(x, K_model), zString(Get(x, K_model)))
    /\ zOptional(Get(x, K_temperature), zRange(Get(x, K_temperature), 0, 1))
    /\ zOptional(Get(x, K_max_tokens), zRange(Get(x, K_max_tokens), 1, 8000))

grokSearchSchema(x) ==
    /\ x.t = "object"
    /\ zString(Get(x, K_query))
    /\ zOptional(Get(x, K_max_results), zInt(Get(x, K_max_results)))
    /\ zOptional(Get(x, K_include_images), zBoolean(Get(x, K_include_images)))
    /\ zOptional(Get(x, K_include_news), zBoolean(Get(x, K_include_news)))
    /\ zOptional(Get(x, K_time_filter), zEnum(Get(x, K_time_filter), TimeFilters))

(***************************************************************************)
(* Math.floor(Number(v)) as grok_search applies it to max_results.         *)
(***************************************************************************)
Digits == <<"0", "1", "2", "3", "4", "5", "6", "7", "8", "9">>
IsDigit(ch) == \E d \in 1..10 : Digits[d] = ch
DigitVal(ch) == (CHOOSE d \in 1..10 : Digits[d] = ch) - 1

RECURSIVE ParseDigits(_, _)
ParseDigits(s, acc) ==
    IF s = <<>> THEN acc ELSE ParseDigits(Tail(s), acc * 10 + DigitVal(Head(s)))

\* Number(v); of the numeric strings only digit strings occur in the model
ToNumber(v) ==
    IF v.t = "number" THEN v
    ELSE IF v.t = "boolean" THEN (IF v.b THEN Num(10) ELSE Num(0))
    ELSE IF v.t = "null" THEN Num(0)
    ELSE IF v.t = "string"
         THEN IF \A i \in 1..Len(v.s) : IsDigit(v.s[i])
              THEN Num(10 * ParseDigits(v.s, 0))
              ELSE NaN
    ELSE IF v.t = "array" /\ Len(v.a) = 0 THEN Num(0)
    ELSE NaN

\* no rounding at all
MathFloorNone(v) == v

\* Math.floor: towards minus infinity
MathFloor(v) == IF v.nan THEN NaN ELSE Num((v.n \div 10) * 10)

\* if (safeArgs.max_results) safeArgs.max_results = Math.floor(Number(...))
CoerceMaxResults(safeArgs) ==
    IF ~Falsy(Get(safeArgs, K_max_results))
    THEN Obj([k \in DOMAIN safeArgs.o \cup {K_max_results} |->
                IF k = K_max_results
                THEN MathFloor(ToNumber(safeArgs.o[K_max_results]))
                ELSE safeArgs.o[k]])
    ELSE safeArgs

(***************************************************************************)
(* GrokClient: configuration, cache and limiter parameters.                *)
(***************************************************************************)
\* grokConfig with no environment overrides (temperature 0.7, maxTokens 4000)
config == [model |-> Str(<<"grok-4.1-fast">>), temperature |-> Num(7), maxTokens |-> Num(40000)]

\* new LRUCache({ max: 100, ttl: 1000 * 60 * 5 })
cacheTtl == 1000 * 60 * 5
\* new Bottleneck({ maxConcurrent: 2, minTime: 500 })
maxConcurrent == 2
minTime == 500
\* one step of the clock, in milliseconds: half the spacing of the limiter
TickMs == minTime \div 2

\* a limiter that may launch its next job at once
NextStartAtOnce(launched) == launched

\* the earliest start of the next job after one was launched at time launched
NextStart(launched) == launched + minTime

\* F applied to the value of v
With(v, F(_)) == CHOOSE y \in {F(x) : x \in {v}} : TRUE

\* { ...a, ...b }: the keys of b win, also when their value is undefined
Spread(a, b) == [k \in DOMAIN a \cup DOMAIN b |-> IF k \in DOMAIN b THEN b[k] ELSE a[k]]

\* JSON.stringify of an object: keys whose value is undefined are left out
Stringify(o) == [k \in {j \in DOMAIN o : o[j] # Undef} |-> o[k]]

\* a || b and a ?? b
OrElse(a, b) == IF Falsy(a) THEN b ELSE a
Nullish(a, b) == IF a.t \in {"undefined", "null"} THEN b ELSE a

Field(o, k) == IF k \in DOMAIN o THEN o[k] ELSE Undef

\* cacheKey of chatCompletion: JSON.stringify({ type: 'chat', ...request })
ChatCacheKey(request) == Stringify(Spread([type |-> Str(<<"chat">>)], request))

\* cacheKey of liveSearch: JSON.stringify({ type: 'search', ...request })
SearchCacheKey(request) == Stringify(Spread([type |-> Str(<<"search">>)], request))

\* fullRequest of chatCompletion as it goes on the wire (JSON drops undefined)
FullRequest(request) ==
    Stringify(Spread([model |-> OrElse(Field(request, "model"), config.model),
                      messages |-> OrElse(Field(request, "messages"), Arr(<<>>)),
                      temperature |-> Nullish(Field(request, "temperature"), config.temperature),
                      max_tokens |-> Nullish(Field(request, "max_tokens"), config.maxTokens),
                      stream |-> Bool(FALSE)],
                     request))

Message(role, content) == Obj(K_role :> Str(<<role>>) @@ K_content :> Str(content))

\* the messages ask() starts with: the system prompt when there is one,
\* then the one user message
AskMessages(question, context, systemPrompt) ==
    (IF ~Falsy(systemPrompt) THEN <<Message("system", systemPrompt.s)>> ELSE <<>>)
    \o (IF ~Falsy(context)
        THEN <<Message("user", <<"Context: ">> \o context.s \o <<"\n\nQuestion: ">> \o question.s)>>
        ELSE <<Message("user", question.s)>>)

\* the chat request of ask() for its messages, without any search
AskBaseRequest(messages, options) ==
    [messages |-> Arr(messages),
     model |-> options.model,
     temperature |-> options.temperature,
     max_tokens |-> options.maxTokens]

\* chatRequest.search_parameters of ask()
AskSearchParameters ==
    Obj([mode |-> Str(<<"always">>), return_citations |-> Bool(TRUE),
         sources |-> Arr(<<Str(<<"web">>), Str(<<"news">>)>>)])

\* the chat request ask() builds
AskChatRequest(question, context, systemPrompt, options) ==
    IF ~Falsy(options.includeSearch)
    THEN Spread(AskBaseRequest(AskMessages(question, context, systemPrompt), options),
                [search_parameters |-> AskSearchParameters])
    ELSE AskBaseRequest(AskMessages(question, context, systemPrompt), options)

\* the search the older ask() makes first: { query: question, max_results: 3 }
AskSearchRequest(question) == [query |-> question, max_results |-> Num(30)]

\* 'Title: ..\nURL: ..\nSnippet: ..' of the results, joined by blank lines
RECURSIVE SearchContext(_, _)
SearchContext(results, i) ==
    IF i > Len(results) THEN <<>>
    ELSE <<"Title: ">> \o results[i].title \o <<"\nURL: ", results[i].url, "\nSnippet: ">>
         \o results[i].snippet
         \o (IF i < Len(results) THEN <<"\n\n">> ELSE <<>>)
         \o SearchContext(results, i + 1)

\* the older ask() pushes a system message with the results, when there are any
WithSearchContext(chatReq, response) ==
    IF Len(response.results) > 0
    THEN [chatReq EXCEPT !.messages =
            Arr(@.a \o <<Message("system", <<"Recent search results for context:\n\n">>
                                           \o SearchContext(response.results, 1))>>)]
    ELSE chatReq

\* the same for what liveSearch returned or threw: the catch of ask() goes
\* on without the search context
WithSearchOutcome(chatReq, r) == IF r.threw THEN chatReq ELSE WithSearchContext(chatReq, r.val)

\* the chat request testConnection() builds
TestChatRequest ==
    [messages |-> Arr(<<Message("user", <<"Hello, are you working?">>)>>), max_tokens |-> Num(100)]

\* getDateOffset(daysAgo): the date is kept symbolic
getDateOffset(daysAgo) == Str(<<"today-", ToString(daysAgo)>>)

\* the chat request the native liveSearch builds
NativeSearchChatRequest(request) ==
    LET tf == Field(request, "time_filter")
        news == Field(request, "include_news")
    IN [messages |-> Arr(<<Message("user", <<"Search for: ">> \o request.query.s)>>),
        search_parameters |-> Obj(Stringify(
            [mode |-> Str(<<"always">>), return_citations |-> Bool(TRUE),
             sources |-> IF ~Falsy(news) THEN Arr(<<Str(<<"web">>), Str(<<"news">>)>>)
                         ELSE Arr(<<Str(<<"web">>)>>),
             from_date |-> IF tf = Str(<<"day">>) THEN getDateOffset(1)
                           ELSE IF tf = Str(<<"week">>) THEN getDateOffset(7)
                           ELSE IF tf = Str(<<"month">>) THEN getDateOffset(30)
                           ELSE IF tf = Str(<<"year">>) THEN getDateOffset(365)
                           ELSE Undef])),
        temperature |-> Num(3),
        max_tokens |-> Num(20000)]

\* the chat request simulateSearch builds (the prompt is kept as fragments)
SimulateChatRequest(request) ==
    [messages |-> Arr(<<Message("system", <<"You are a search results generator.">>),
                        Message("user", <<"simulate web search results for: ">> \o request.query.s
                                        \o <<" count: ">> \o
                                        (IF Falsy(Field(request, "max_results")) THEN <<"5">>
                                         ELSE <<ToString(Field(request, "max_results").n)>>))>>),
     temperature |-> Num(1),
     max_tokens |-> Num(20000)]

(***************************************************************************)
(* Upstream response bodies and the extraction of search results.          *)
(* A URL is one fragment of a text; UrlInfo says how new URL() parses it.  *)
(***************************************************************************)
UrlA == "https://a.example/first-post"
UrlB == "https://b.example"
UrlC == "https://c.example/docs/x_y"
UrlBad == "https://"
UrlInfo ==
    UrlA :> [valid |-> TRUE, hostname |-> "a.example", segments |-> <<<<"first", "-", "post">>>>]
    @@ UrlB :> [valid |-> TRUE, hostname |-> "b.example", segments |-> <<>>]
    @@ UrlC :> [valid |-> TRUE, hostname |-> "c.example", segments |-> <<<<"docs">>, <<"x", "_", "y">>>>]
    @@ UrlBad :> [valid |-> FALSE, hostname |-> "", segments |-> <<>>]
Urls == DOMAIN UrlInfo

\* body of a chat completion: choices may be missing in a malformed body
ChatBody(content, citations) ==
    [hasChoices |-> TRUE, choices |-> <<[content |-> content, citations |-> citations]>>]
NoChoicesBody == [hasChoices |-> TRUE, choices |-> <<>>]
MalformedBody == [hasChoices |-> FALSE, choices |-> <<>>]

\* path.replace(/[-_]/g, ' ')
DashToSpace(seg) == [i \in 1..Len(seg) |-> IF seg[i] \in {"-", "_"} THEN " " ELSE seg[i]]

\* extractTitleFromUrl: last non-empty path segment, or the hostname;
\* 'Search Result' when the URL does not parse
extractTitleFromUrl(url) ==
    LET u == UrlInfo[url]
    IN IF ~u.valid THEN <<"Search Result">>
       ELSE IF u.segments = <<>> THEN DashToSpace(<<u.hostname>>)
       ELSE DashToSpace(u.segments[Len(u.segments)])

\* seq.slice(0, n): a negative n counts from the end of seq
Take(seq, n) ==
    SubSeq(seq, 1, IF n >= Len(seq) THEN Len(seq)
                   ELSE IF n >= 0 THEN n
                   ELSE IF Len(seq) + n > 0 THEN Len(seq) + n
                   ELSE 0)

\* content.match(/https?:\/\/[^\s]+/g) || []
FoundUrls(content) == SelectSeq(content, LAMBDA f : f \in Urls)

\* Array.prototype.includes on the citations
SeqIncludes(seq, x) == \E i \in 1..Len(seq) : seq[i] = x

UrlResult(url, content) ==
    [title |-> extractTitleFromUrl(url), url |-> url, snippet |-> content,
     source |-> UrlInfo[url].hostname]

GenericResult(content) ==
    [title |-> <<"Search Result">>, url |-> "https://grok.com", snippet |-> content,
     source |-> "grok"]

\* maxResults || 10, as a count
SearchLimit(maxResults) == IF Falsy(maxResults) THEN 10 ELSE maxResults.n \div 10

\* the results pushed for the URLs of one loop
UrlResults(urls, content) == [i \in 1..Len(urls) |-> UrlResult(urls[i], content)]

\* new URL(url) throws on one of the URLs
AnyInvalid(urls) == \E i \in 1..Len(urls) : ~UrlInfo[urls[i]].valid

\* a second loop that also pushes the URLs that are among the citations
ScannedUrlsAlsoCited(content, citations, limit, pushed) ==
    IF pushed < limit THEN Take(FoundUrls(content), limit - pushed) ELSE <<>>

\* the URLs the second loop pushes, after the first loop pushed `pushed`
\* results: foundUrls.slice(0, limit - results.length) without the cited ones
ScannedUrls(content, citations, limit, pushed) ==
    IF pushed < limit
    THEN SelectSeq(Take(FoundUrls(content), limit - pushed),
                   LAMBDA u : ~SeqIncludes(citations, u))
    ELSE <<>>

\* the results for the URLs of the two loops, or the generic result
ParsedResults(content, cited, scanned) ==
    IF AnyInvalid(cited) \/ AnyInvalid(scanned) THEN Threw(TypeError(<<"Invalid URL">>))
    ELSE IF Len(cited) + Len(scanned) = 0 THEN Ok(<<GenericResult(content)>>)
    ELSE Ok(UrlResults(cited, content) \o UrlResults(scanned, content))

\* the two loops once citations.slice(0, limit) is known
ParseCited(content, citations, limit, cited) ==
    ParsedResults(content, cited, ScannedUrls(content, citations, limit, Len(cited)))

\* parseSearchResults(content, citations, maxResults); new URL(url) throws a
\* TypeError on a URL that does not parse
parseSearchResults(content, citations, maxResults) ==
    ParseCited(content, citations, SearchLimit(maxResults),
               Take(citations, SearchLimit(maxResults)))

SearchResponse(results) == [results |-> results, total_results |-> Len(results)]

\* JSON documents a reply of the model may hold, as single fragments, with
\* the value of their "results" member
JsonTwo == "{\"results\":[A,B]}"
JsonNone == "{\"results\":[]}"
JsonBroken == "{\"results\":["
SimResultA == [title |-> <<"A">>, url |-> UrlA, snippet |-> <<"a">>, source |-> ""]
SimResultB == [title |-> <<"B">>, url |-> UrlB, snippet |-> <<"b">>, source |-> ""]
JsonResults == JsonTwo :> <<SimResultA, SimResultB>> @@ JsonNone :> <<>>

\* content.replace(/```json\n?|```\n?/g, ''): the two markdown fences are the
\* fragments FenceJson and Fence
FenceJson == "FENCE_JSON"
Fence == "FENCE"
StripFences(content) == SelectSeq(content, LAMBDA f : f \notin {FenceJson, Fence})

\* content.match(/\{[\s\S]*\}/): from the first fragment that opens a brace
\* to the last one that closes a brace, or the whole text without a match
JsonMatch(text) ==
    LET from == {i \in 1..Len(text) : text[i] \in {JsonTwo, JsonNone, JsonBroken}}
        to == {j \in 1..Len(text) : text[j] \in {JsonTwo, JsonNone}}
    IN IF from = {} \/ to = {} THEN text
       ELSE LET i == CHOOSE x \in from : \A y \in from : x <= y
                j == CHOOSE x \in to : \A y \in to : y <= x
            IN IF i <= j THEN SubSeq(text, i, j) ELSE text

\* encodeURIComponent, for the characters of the queries of the model
RECURSIVE encodeURIComponent(_)
encodeURIComponent(str) ==
    IF str = <<>> THEN ""
    ELSE (IF Head(str) = " " THEN "%20" ELSE IF Head(str) = "&" THEN "%26" ELSE Head(str))
         \o encodeURIComponent(Tail(str))

\* the one result of the catch of simulateSearch
FallbackResult(query) ==
    [title |-> <<"Search results for: ">> \o query,
     url |-> "https://www.google.com/search?q=" \o encodeURIComponent(query),
     snippet |-> <<"Information about ">> \o query,
     source |-> ""]

\* a simulateSearch whose catch returns no result at all
SimulatedResultsNoFallback(content, query) ==
    LET text == JsonMatch(StripFences(IF Falsy(content) THEN <<JsonNone>> ELSE content.s))
    IN IF Len(text) = 1 /\ text[1] \in DOMAIN JsonResults THEN JsonResults[text[1]] ELSE <<>>

\* the result list simulateSearch returns for the reply of the model:
\* JSON.parse of the {...} match, or the single fallback result when
\* JSON.parse throws
SimulatedResults(content, query) ==
    LET text == JsonMatch(StripFences(IF Falsy(content) THEN <<JsonNone>> ELSE content.s))
    IN IF Len(text) = 1 /\ text[1] \in DOMAIN JsonResults THEN JsonResults[text[1]]
       ELSE <<FallbackResult(query)>>

(***************************************************************************)
(* State.                                                                  *)
(*   env      the environment of the run: SHARED_SECRET, which of the two  *)
(*            grok-client sources is built in, and the workload            *)
(*   now      the clock, in milliseconds                                   *)
(*   calls    one record per tool call (handleToolCall invocation)         *)
(*   cache    GrokClient.cache: key -> [value, at]                         *)
(*   limiter  GrokClient.limiter: FIFO queue, running jobs, next start     *)
(*   dispatched  start times of the jobs the limiter has launched          *)
(*   metrics  requestCounter, errorCounter, observations of the histogram  *)
(*   sanIn, sanOut, sanPc  one application of sanitize to a value          *)
(*   parseIn, parseOut  one application of parseSearchResults to the       *)
(*            content, the citations and the max_results of a search       *)
(***************************************************************************)
VARIABLES env, now, calls, cache, limiter, dispatched, metrics, sanIn, sanOut, sanPc,
          parseIn, parseOut
vars == <<env, now, calls, cache, limiter, dispatched, metrics, sanIn, sanOut, sanPc, parseIn, parseOut>>

CallIds == 1..MaxCalls

NoResult == [kind |-> "none"]
Returned(envelope) == [kind |-> "returned", envelope |-> envelope]
Rejected(error) == [kind |-> "rejected", error |-> error]

\* { content: [{ type: 'text', text }] }
Envelope(text) == [content |-> <<[type |-> "text", text |-> text]>>]

NoRequest == [params |-> [name |-> "", arguments |-> Undef, auth |-> Undef], auth |-> Undef]

IdleCall ==
    [pc |-> "idle", request |-> NoRequest, op |-> "none", chatReq |-> <<>>,
     searchReq |-> <<>>, endpoint |-> "none", wire |-> <<>>, ended |-> 0,
     failed |-> FALSE, thrown |-> Err("none", <<>>), netCalls |-> 0, upFailed |-> FALSE,
     reply |-> "none", askReq |-> <<>>, searchResp |-> Undef, trail |-> <<>>,
     result |-> NoResult]

\* a get that returns an entry whatever its age
CacheGetAnyAge(key) == IF key \in DOMAIN cache THEN cache[key].value ELSE Undef

\* this.cache.get(key): undefined when absent or older than the ttl
CacheGet(key) ==
    IF key \in DOMAIN cache /\ now - cache[key].at <= cacheTtl
    THEN cache[key].value
    ELSE Undef

\* this.cache.set(key, value) for each entry of sets, in order
RECURSIVE CacheSetAll(_, _)
CacheSetAll(c, sets) ==
    IF sets = <<>> THEN c
    ELSE CacheSetAll([k \in DOMAIN c \cup {Head(sets).key} |->
                        IF k = Head(sets).key THEN [value |-> Head(sets).value, at |-> now]
                        ELSE c[k]],
                     Tail(sets))

(***************************************************************************)
(* handleError and the end of handleToolCall.                              *)
(***************************************************************************)
RecognizedErrors == {"ValidationError", "AuthError", "ExternalServiceError"}

\* the message handleError puts after 'Error: '
ErrorMessage(error) ==
    IF error.name \in RecognizedErrors THEN error.message
    ELSE IF error.message # <<>> THEN error.message
    ELSE <<"Internal server error">>

handleError(error) == Envelope(<<"Error: ">> \o ErrorMessage(error))

\* what the try block of handleToolCall came to: the text it returns or the
\* error it threw, whether end() ran on the way, and the cache writes made
Fin(outcome, ended, sets) ==
    [kind |-> "finish", outcome |-> outcome, ended |-> ended, sets |-> sets, resp |-> Undef]

\* the same for grok_search when liveSearch returned the response resp
FinSearch(text, sets, resp) ==
    [kind |-> "finish", outcome |-> Ok(text), ended |-> FALSE, sets |-> sets, resp |-> resp]

\* handleToolCall without its catch block: a thrown error rejects the call
CompleteNoCatch(rec, fin) ==
    [rec EXCEPT !.pc = "done",
                !.failed = fin.outcome.threw,
                !.thrown = fin.outcome.err,
                !.searchResp = fin.resp,
                !.ended = @ + (IF fin.ended THEN 1 ELSE 0),
                !.trail = Append(@, "responding"),
                !.result = IF fin.outcome.threw
                           THEN Rejected(fin.outcome.err)
                           ELSE Returned(Envelope(fin.outcome.val))]

\* the return statement of the try block, or the catch block
\* (errorCounter.inc(); end(); return handleError(error))
Complete(rec, fin) ==
    [rec EXCEPT !.pc = "done",
                !.failed = fin.outcome.threw,
                !.thrown = fin.outcome.err,
                !.searchResp = fin.resp,
                !.ended = @ + (IF fin.ended THEN 1 ELSE 0) + (IF fin.outcome.threw THEN 1 ELSE 0),
                !.trail = Append(@, "responding"),
                !.result = IF fin.outcome.threw
                           THEN Returned(handleError(fin.outcome.err))
                           ELSE Returned(Envelope(fin.outcome.val))]

(***************************************************************************)
(* What each operation does with the result of its chat completion.        *)
(***************************************************************************)
NoResponseText == <<"No response generated">>

\* response.choices[0]?.message?.content || 'No response generated'
FirstContent(body) ==
    IF Len(body.choices) = 0 \/ Falsy(body.choices[1].content) THEN NoResponseText
    ELSE body.choices[1].content.s

ReadOfUndefined == TypeError(<<"Cannot read properties of undefined (reading '0')">>)

\* a wrapper that rethrows the error as it is
WrapNothing(prefix, err) == err

\* err?.message ? `${prefix}: ${err.message}` : prefix, as ExternalServiceError
Wrap(prefix, err) ==
    ExternalServiceError(IF err.message # <<>> THEN <<prefix, ": ">> \o err.message ELSE <<prefix>>)

FormatResult(i, r) == <<ToString(i), ". ">> \o r.title \o <<"\n", r.url, "\n">> \o r.snippet

RECURSIVE FormatResults(_, _)
FormatResults(results, i) ==
    IF i > Len(results) THEN <<>>
    ELSE FormatResult(i, results[i])
         \o (IF i < Len(results) THEN <<"\n\n">> ELSE <<>>)
         \o FormatResults(results, i + 1)

\* the text grok_search returns for a search response
FormatSearch(query, response) ==
    <<"Search Results for \"">> \o query.s \o <<"\" (", ToString(response.total_results),
      " results found in 0.5s):\n\n">> \o FormatResults(response.results, 1)

ConnectedText == <<"Grok API connection successful! Ready to use Grok 4.">>
NotConnectedText == <<"Grok API connection failed. Please check your API key and configuration.">>

\* ask(): the first choice's content
AskResult(outcome) ==
    IF outcome.threw THEN outcome
    ELSE IF ~outcome.val.hasChoices THEN Threw(ReadOfUndefined)
    ELSE Ok(FirstContent(outcome.val))

\* message?.content || '' and message?.citations || [] of the first choice
MessageContent(body) ==
    IF Len(body.choices) = 0 \/ Falsy(body.choices[1].content) THEN <<>>
    ELSE body.choices[1].content.s
MessageCitations(body) == IF Len(body.choices) = 0 THEN <<>> ELSE body.choices[1].citations

\* the response liveSearch builds of the parsed results; its catch turns
\* any error into 'Live search failed'
LiveSearchFailed == Threw(ExternalServiceError(<<"Live search failed">>))
LiveSearchResponse(parsed) ==
    IF parsed.threw THEN LiveSearchFailed ELSE Ok(SearchResponse(parsed.val))

\* the native liveSearch after its chat completion
NativeSearchResult(searchReq, outcome) ==
    IF outcome.threw THEN LiveSearchFailed
    ELSE IF ~outcome.val.hasChoices THEN LiveSearchFailed
    ELSE With(parseSearchResults(MessageContent(outcome.val), MessageCitations(outcome.val),
                                 Field(searchReq, "max_results")),
              LAMBDA parsed : LiveSearchResponse(parsed))

\* simulateSearch after its chat completion
SimulateSearchResult(searchReq, outcome) ==
    IF outcome.threw THEN outcome
    ELSE IF ~outcome.val.hasChoices THEN Threw(ReadOfUndefined)
    ELSE Ok(SearchResponse(SimulatedResults(
            IF Len(outcome.val.choices) = 0 THEN Undef ELSE outcome.val.choices[1].content,
            searchReq.query.s)))

\* grok_ask after safeAsk: r is what client.ask returned or threw
AskFin(r) ==
    IF r.threw THEN Fin(Threw(Wrap("Grok ask failed", r.err)), FALSE, <<>>)
    ELSE Fin(r, TRUE, <<>>)

\* grok_chat after safeChat: outcome is what client.chatCompletion returned
\* or threw
ChatFin(outcome) ==
    IF outcome.threw THEN Fin(Threw(Wrap("Grok chat failed", outcome.err)), FALSE, <<>>)
    ELSE IF ~outcome.val.hasChoices THEN Fin(Threw(ReadOfUndefined), FALSE, <<>>)
    ELSE Fin(Ok(FirstContent(outcome.val)), TRUE, <<>>)

\* grok_search after safeSearch: r is what client.liveSearch returned or
\* threw; cached tells whether liveSearch stored its response in the cache
SearchFin(searchReq, r, cached) ==
    IF r.threw THEN Fin(Threw(Wrap("Grok search failed", r.err)), FALSE, <<>>)
    ELSE FinSearch(FormatSearch(searchReq.query, r.val),
                   IF cached THEN <<[key |-> SearchCacheKey(searchReq), value |-> r.val]>> ELSE <<>>,
                   r.val)

\* a testConnection without its try/catch: the error of the chat completion
\* reaches the handler
TestFinRaises(outcome) ==
    IF outcome.threw THEN Fin(outcome, FALSE, <<>>) ELSE Fin(Ok(ConnectedText), TRUE, <<>>)

\* grok_test_connection after testConnection: true when the chat completion
\* returned, false when it threw; end(); the text for the boolean
TestFin(outcome) ==
    Fin(Ok(IF outcome.threw THEN NotConnectedText ELSE ConnectedText), TRUE, <<>>)

\* the rest of handleToolCall once chatCompletion has returned or thrown:
\* outcome is Ok(body) or Threw(error)
AfterChat(op, searchReq, outcome) ==
    IF op = "ask" THEN AskFin(AskResult(outcome))
    ELSE IF op = "chat" THEN ChatFin(outcome)
    ELSE IF op = "testConnection" THEN TestFin(outcome)
    ELSE IF op = "liveSearch"
    THEN With(NativeSearchResult(searchReq, outcome), LAMBDA r : SearchFin(searchReq, r, TRUE))
    ELSE With(SimulateSearchResult(searchReq, outcome), LAMBDA r : SearchFin(searchReq, r, FALSE))


(***************************************************************************)
(* handleToolCall up to its first call of the client.                      *)
(***************************************************************************)
\* a step that needs the client: a chat completion for op, or a liveSearch
ChatStep(op, chatReq, searchReq) == [kind |-> "chat", op |-> op, chatReq |-> chatReq, searchReq |-> searchReq]
SearchStep(searchReq) == [kind |-> "liveSearch", searchReq |-> searchReq]
\* the older ask() with includeSearch: a liveSearch first, then the chat
AskSearchStep(chatReq, searchReq) == [kind |-> "askSearch", chatReq |-> chatReq, searchReq |-> searchReq]

UnknownToolText(name) == <<"Error: Unknown tool: ", name>>

\* a default case that throws instead of returning the text
DefaultCaseThrows(name) == Fin(Threw(PlainError(<<"Unknown tool: ", name>>)), FALSE, <<>>)

\* the default case of the switch: end(); return the text, nothing thrown
DefaultCase(name) == Fin(Ok(UnknownToolText(name)), TRUE, <<>>)

\* client.ask(data.question, data.context, data.system_prompt, {...})
\* options that leave the model out
AskOptionsNoModel(data) ==
    [temperature |-> data[K_temperature],
     maxTokens |-> data[K_max_tokens],
     includeSearch |-> data[K_include_search],
     model |-> Undef]

\* { temperature, maxTokens: max_tokens, includeSearch: include_search, model }
AskOptions(data) ==
    [temperature |-> data[K_temperature],
     maxTokens |-> data[K_max_tokens],
     includeSearch |-> data[K_include_search],
     model |-> data[K_model]]

AskStep(data) ==
    IF env.variant = "simulated" /\ ~Falsy(data[K_include_search])
    THEN AskSearchStep(AskBaseRequest(AskMessages(data[K_question], data[K_context],
                                                  data[K_system_prompt]),
                                      AskOptions(data)),
                       AskSearchRequest(data[K_question]))
    ELSE ChatStep("ask",
                  AskChatRequest(data[K_question], data[K_context], data[K_system_prompt],
                                 AskOptions(data)),
                  <<>>)

ToolAsk(safeArgs) ==
    IF ~grokAskSchema(safeArgs)
    THEN Fin(Threw(ValidationError(<<"Invalid input for grok_ask">>)), FALSE, <<>>)
    ELSE AskStep(Pick(safeArgs, AskKeys))

\* client.chatCompletion(data)
ChatDataStep(data) ==
    ChatStep("chat",
             [messages |-> Arr([i \in 1..Len(data[K_messages].a) |->
                                  Obj(Pick(data[K_messages].a[i], {K_role, K_content}))]),
              model |-> data[K_model],
              temperature |-> data[K_temperature],
              max_tokens |-> data[K_max_tokens]],
             <<>>)

ToolChat(safeArgs) ==
    IF ~grokChatSchema(safeArgs)
    THEN Fin(Threw(ValidationError(<<"Invalid input for grok_chat">>)), FALSE, <<>>)
    ELSE ChatDataStep(Pick(safeArgs, ChatKeys))

\* client.liveSearch(data)
SearchDataStep(data) ==
    SearchStep([query |-> data[K_query],
                max_results |-> data[K_max_results],
                include_images |-> data[K_include_images],
                include_news |-> data[K_include_news],
                time_filter |-> data[K_time_filter]])

\* grok_search once max_results has been coerced
ToolSearchCoerced(coerced) ==
    IF ~grokSearchSchema(coerced)
    THEN Fin(Threw(ValidationError(<<"Invalid input for grok_search">>)), FALSE, <<>>)
    ELSE SearchDataStep(Pick(coerced, SearchKeys))

ToolSearch(safeArgs) ==
    IF safeArgs.t \in {"undefined", "null"}
    THEN Fin(Threw(TypeError(<<"Cannot read properties of ", safeArgs.t, " (reading 'max_results')">>)),
             FALSE, <<>>)
    ELSE ToolSearchCoerced(CoerceMaxResults(safeArgs))

\* the switch of handleToolCall on the name
ToolSwitch(name, safeArgs) ==
    IF name = "grok_ask" THEN ToolAsk(safeArgs)
    ELSE IF name = "grok_chat" THEN ToolChat(safeArgs)
    ELSE IF name = "grok_search" THEN ToolSearch(safeArgs)
    ELSE IF name = "grok_health" THEN [kind |-> "health"]
    ELSE IF name = "grok_models" THEN [kind |-> "models"]
    ELSE IF name = "grok_test_connection" THEN ChatStep("testConnection", TestChatRequest, <<>>)
    ELSE DefaultCase(name)

\* the steps of the pipeline handleToolCall runs for a request before it
\* responds or first waits for the client: it takes the request, sanitizes
\* the arguments, runs safeParse in the three cases that have a schema, and
\* calls the client (or the default case) when nothing was thrown before
StagesOf(name, safeArgs) ==
    <<"received", "sanitizing">>
    \o (IF name = "grok_ask"
        THEN <<"validating">> \o (IF grokAskSchema(safeArgs) THEN <<"dispatching">> ELSE <<>>)
        ELSE IF name = "grok_chat"
        THEN <<"validating">> \o (IF grokChatSchema(safeArgs) THEN <<"dispatching">> ELSE <<>>)
        ELSE IF name = "grok_search"
        THEN IF safeArgs.t \in {"undefined", "null"} THEN <<>>
             ELSE <<"validating">>
                  \o (IF grokSearchSchema(CoerceMaxResults(safeArgs)) THEN <<"dispatching">>
                      ELSE <<>>)
        ELSE <<"dispatching">>)

Stages(request) == StagesOf(request.params.name, sanitize(request.params.arguments))

\* the try block of handleToolCall: sanitize, then the switch on the name
\* (the call of checkAuth is commented out in the source)
ToolStart(request) == ToolSwitch(request.params.name, sanitize(request.params.arguments))

(***************************************************************************)
(* chatCompletion and liveSearch up to their network call.                 *)
(***************************************************************************)
\* the effect of a step on the call record: the new record, the cache
\* writes, and whether a job was handed to the limiter
Effect(rec, sets, enqueue) == [rec |-> rec, sets |-> sets, enqueue |-> enqueue]

Finish(rec, fin) == With(fin, LAMBDA f : Effect(Complete(rec, f), f.sets, FALSE))

\* a chatCompletion that never looks up the cache
ProgressChatNoLookup(rec, op, chatReq, searchReq) ==
    Effect([rec EXCEPT !.pc = "queued", !.op = op, !.chatReq = chatReq,
                       !.searchReq = searchReq, !.endpoint = "/chat/completions"],
           <<>>, TRUE)

\* chatCompletion(chatReq) for op: a cache hit goes straight on, a miss
\* schedules the POST on the limiter
ProgressChat(rec, op, chatReq, searchReq) ==
    LET cached == CacheGet(ChatCacheKey(chatReq))
    IN IF cached # Undef
       THEN Finish([rec EXCEPT !.op = op, !.chatReq = chatReq, !.searchReq = searchReq],
                   AfterChat(op, searchReq, Ok(cached)))
       ELSE Effect([rec EXCEPT !.pc = "queued", !.op = op, !.chatReq = chatReq,
                               !.searchReq = searchReq, !.endpoint = "/chat/completions"],
                   <<>>, TRUE)

\* liveSearch(searchReq): a cache hit returns the cached response; a miss
\* goes to the chat completion (native) or to POST /search (simulated)
ProgressSearch(rec, searchReq) ==
    LET cached == CacheGet(SearchCacheKey(searchReq))
    IN IF cached # Undef
       THEN Finish([rec EXCEPT !.op = "liveSearch", !.searchReq = searchReq],
                   FinSearch(FormatSearch(searchReq.query, cached), <<>>, cached))
       ELSE IF env.variant = "native"
       THEN ProgressChat(rec, "liveSearch", NativeSearchChatRequest(searchReq), searchReq)
       ELSE Effect([rec EXCEPT !.pc = "queued", !.op = "liveSearch", !.searchReq = searchReq,
                               !.endpoint = "/search"],
                   <<>>, TRUE)

\* the effect with the cache writes sets made before it
AddSets(eff, sets) == [eff EXCEPT !.sets = sets \o @]

\* the older ask() once its liveSearch returned or threw r: the chat
\* completion, with the search context when there is one
ProgressAskChat(rec, r) ==
    With(WithSearchOutcome(rec.askReq, r),
         LAMBDA chatReq : ProgressChat(rec, "ask", chatReq, rec.searchReq))

\* simulateSearch inside the older ask(): its chat completion is served
\* from the cache or scheduled on the limiter
ProgressAskSimulate(rec) ==
    IF CacheGet(ChatCacheKey(SimulateChatRequest(rec.searchReq))) # Undef
    THEN ProgressAskChat(rec, SimulateSearchResult(rec.searchReq,
                                  Ok(CacheGet(ChatCacheKey(SimulateChatRequest(rec.searchReq))))))
    ELSE Effect([rec EXCEPT !.pc = "queued", !.op = "askSimulate",
                            !.chatReq = SimulateChatRequest(rec.searchReq),
                            !.endpoint = "/chat/completions"],
                <<>>, TRUE)

\* the liveSearch of the older ask(): a cache hit goes on to the chat, a
\* miss schedules POST /search on the limiter
ProgressAskSearch(rec) ==
    IF CacheGet(SearchCacheKey(rec.searchReq)) # Undef
    THEN ProgressAskChat(rec, Ok(CacheGet(SearchCacheKey(rec.searchReq))))
    ELSE Effect([rec EXCEPT !.pc = "queued", !.op = "askSearch", !.endpoint = "/search"],
                <<>>, TRUE)

Progress(rec, step) ==
    IF step.kind = "finish" THEN Finish(rec, step)
    ELSE IF step.kind = "chat" THEN ProgressChat(rec, step.op, step.chatReq, step.searchReq)
    ELSE IF step.kind = "askSearch"
    THEN ProgressAskSearch([rec EXCEPT !.askReq = step.chatReq, !.searchReq = step.searchReq])
    ELSE ProgressSearch(rec, step.searchReq)

\* the label set of inc() and of end() called without labels, as the source
\* calls them: the series that carries no tool label
NoLabels == "{}"

\* the value of the series of a metric for a label set
Series(metric, labels) == IF labels \in DOMAIN metric THEN metric[labels] ELSE 0

\* an inc() that counts nothing
IncNothing(metric, n) == metric

\* metric.inc(), end(): the series without labels goes up by n
Inc(metric, n) ==
    IF n = 0 THEN metric
    ELSE [l \in DOMAIN metric \cup {NoLabels} |->
            Series(metric, l) + (IF l = NoLabels THEN n ELSE 0)]

\* the counters after a step took the record of a call from old to new
Metered(old, new, entered) ==
    [requests |-> Inc(metrics.requests, entered),
     errors |-> Inc(metrics.errors, IF new.failed /\ ~old.failed THEN 1 ELSE 0),
     observations |-> Inc(metrics.observations, new.ended - old.ended)]


(***************************************************************************)
(* The requests of the model and the replies of the upstream.              *)
(***************************************************************************)
Request(name, arguments, token) ==
    [params |-> [name |-> name, arguments |-> arguments, auth |-> token], auth |-> Undef]

SecretAbc == Str(<<"a", "b", "c">>)
TokenAb == Str(<<"a", "b">>)
ModelCode == Str(<<"grok-code-fast-1">>)

UserHi == Obj(K_role :> Str(<<"user">>) @@ K_content :> Str(<<"h", "i">>))

ReqChatHi == Request("grok_chat", Obj(K_messages :> Arr(<<UserHi>>)), Undef)
ReqChatBad == Request("grok_chat", Obj(K_messages :> Str(<<"h", "i">>)), Undef)
ReqAskQ == Request("grok_ask", Obj(K_question :> Str(<<"q">>) @@ K_model :> ModelCode), Undef)
ReqAskWrongToken == Request("grok_ask", Obj(K_question :> Str(<<"q">>)), TokenAb)
ReqAskGoodToken == Request("grok_ask", Obj(K_question :> Str(<<"q">>)), SecretAbc)
ReqAskSearch == Request("grok_ask", Obj(K_question :> Str(<<"q">>) @@ K_include_search :> Bool(TRUE)), Undef)
ReqAskMarked == Request("grok_ask", Obj(K_question :> Str(<<"q">>) @@ K_model :> Str(<<"grok", "<", "4">>)), Undef)
ReqAskMissing == Request("grok_ask", EmptyObj, Undef)
ReqAskBlank == Request("grok_ask", Obj(K_question :> Str(<<>>)), Undef)
ReqAskStripped == Request("grok_ask", Obj(K_question :> Str(<<"<", "'", ">">>)), Undef)
ReqAskNoArgs == Request("grok_ask", Undef, Undef)
ReqSearchTest == Request("grok_search", Obj(K_query :> Str(<<"t", "e", "s", "t">>) @@ K_max_results :> Num(37)), Undef)
ReqSearchNeg == Request("grok_search", Obj(K_query :> Str(<<"t", "e", "s", "t">>) @@ K_max_results :> Num(-37)), Undef)
ReqSearchWords == Request("grok_search", Obj(K_query :> Str(<<"a", " ", "b", "&", "c">>)), Undef)
ReqSearchBad == Request("grok_search", Obj(K_query :> Num(10)), Undef)
ReqSearchNoArgs == Request("grok_search", Undef, Undef)
ReqModels == Request("grok_models", EmptyObj, Undef)
ReqTest == Request("grok_test_connection", EmptyObj, Undef)
ReqHealth == Request("grok_health", EmptyObj, Undef)
ReqUnknown == Request("grok_foo", EmptyObj, TokenAb)
ReqNoName == Request("", Undef, Undef)

AllRequests ==
    {ReqChatHi, ReqChatBad, ReqAskQ, ReqAskSearch, ReqAskMarked, ReqAskWrongToken, ReqAskGoodToken, ReqAskMissing,
     ReqAskBlank, ReqAskStripped, ReqAskNoArgs, ReqSearchTest, ReqSearchNeg, ReqSearchWords, ReqSearchBad,
     ReqSearchNoArgs,
     ReqModels, ReqTest, ReqHealth, ReqUnknown, ReqNoName}

RegisteredTools ==
    {"grok_ask", "grok_chat", "grok_search", "grok_models", "grok_test_connection", "grok_health"}

\* chat completion bodies the upstream may send
BodyA == ChatBody(Str(<<"A">>), <<>>)
BodyB == ChatBody(Str(<<"B">>), <<>>)
BodyCited == ChatBody(Str(<<"see", UrlA>>), <<UrlB>>)
BodyBadCite == ChatBody(Str(<<"see">>), <<UrlBad>>)
BodyJsonTwo == ChatBody(Str(<<FenceJson, JsonTwo, Fence>>), <<>>)
BodyJsonNone == ChatBody(Str(<<JsonNone>>), <<>>)
BodyJsonBroken == ChatBody(Str(<<FenceJson, JsonBroken>>), <<>>)
BodyJsonTwice == ChatBody(Str(<<JsonTwo, "A", JsonNone>>), <<>>)

ChatBodies(op) ==
    IF op = "liveSearch" THEN {BodyA, BodyCited, BodyBadCite}
    ELSE IF op \in {"simulateSearch", "askSimulate"}
    THEN {BodyA, BodyJsonTwo, BodyJsonNone, BodyJsonBroken, BodyJsonTwice}
    ELSE {BodyA, BodyB, MalformedBody}

\* failures of the HTTP client (axios errors): an error status, a timeout
Http500 == [status |-> "500", message |-> "upstream failure"]
Http404 == [status |-> "404", message |-> "not found"]
Timeout == [status |-> "undefined", message |-> "timeout of 60000ms exceeded"]
Failures == {Http500, Timeout}

\* the error chatCompletion throws for an axios error
ChatError(f) == PlainError(<<"Grok API Error: ", f.status, " - ", f.message>>)

\* bodies of POST /search (the simulated-search source only)
SearchBodies == {SearchResponse(<<SimResultA>>)}

\* GET /models: a list of ids, or a body without the data member
ModelsListed == <<"grok-4", "grok-code-fast-1">>
ModelsDefault ==
    IF env.variant = "native" THEN <<"grok-4.1-fast">> ELSE <<"grok-4">>
ModelsFallback ==
    IF env.variant = "native"
    THEN <<"grok-4.1-fast", "grok-4-1-fast-reasoning", "grok-4-1-fast-non-reasoning", "grok-code-fast-1", "grok-4">>
    ELSE <<"grok-4-1-fast-reasoning", "grok-4-1-fast-non-reasoning", "grok-code-fast-1", "grok-4", "grok-3">>

RECURSIVE ModelLines(_)
ModelLines(models) ==
    IF models = <<>> THEN <<>>
    ELSE <<"- ", Head(models)>> \o (IF Len(models) > 1 THEN <<"\n">> ELSE <<>>) \o ModelLines(Tail(models))

ModelsText(models) == <<"Available Grok models:\n">> \o ModelLines(models)

(***************************************************************************)
(* Workloads: which requests arrive, how many, and how many at once.       *)
(***************************************************************************)
BroadCalls == 1
RepeatCalls == 2

\* lapse: whether the server may sit idle between two calls
Broad == [menu |-> AllRequests, calls |-> BroadCalls, open |-> 1, lapse |-> FALSE]
Concurrent ==
    [menu |-> {ReqChatHi, ReqModels}, calls |-> MaxCalls, open |-> MaxCalls, lapse |-> FALSE]
Repeat == [menu |-> {ReqSearchTest, ReqChatHi}, calls |-> RepeatCalls, open |-> 1, lapse |-> TRUE]
\* the connection test repeated
Probe == [menu |-> {ReqTest}, calls |-> RepeatCalls + 1, open |-> 1, lapse |-> TRUE]

Envs ==
    {[secret |-> sec, variant |-> v, load |-> Broad] :
        sec \in {Undef, SecretAbc}, v \in {"native", "simulated"}}
    \cup {[secret |-> Undef, variant |-> "native", load |-> Concurrent]}
    \cup {[secret |-> Undef, variant |-> v, load |-> Repeat] : v \in {"native", "simulated"}}
    \cup {[secret |-> Undef, variant |-> "native", load |-> Probe]}


(***************************************************************************)
(* Actions.                                                                *)
(***************************************************************************)
Entered == {c \in CallIds : calls[c].pc # "idle"}
Open == {c \in CallIds : calls[c].pc \notin {"idle", "done"}}

PipelineIdle ==
    sanIn = Undef /\ sanOut = Undef /\ sanPc = "off" /\ parseIn = Undef /\ parseOut = Undef

\* the three metrics before any call: no series yet
NoMetrics == [requests |-> <<>>, errors |-> <<>>, observations |-> <<>>]

\* the state after one step of call c, given its effect
Apply(c, eff, entered) ==
    \E e \in {eff} :
        /\ calls' = [calls EXCEPT ![c] = e.rec]
        /\ cache' = CacheSetAll(cache, e.sets)
        /\ limiter' = IF e.enqueue THEN [limiter EXCEPT !.queue = Append(@, c)] ELSE limiter
        /\ metrics' = Metered(calls[c], e.rec, entered)

\* handleToolCall from the record rec of the call and the step its try
\* block came to
Start(c, rec, step) ==
    IF step.kind = "models"
    THEN \* getModels: this.client.get('/models'), not through the limiter
         Apply(c, Effect([rec EXCEPT !.pc = "inflight", !.op = "getModels",
                                     !.endpoint = "/models", !.netCalls = 1,
                                     !.wire = <<[endpoint |-> "/models", op |-> "getModels"]>>],
                         <<>>, FALSE), 1)
    ELSE IF step.kind = "health"
    THEN \* end(); then await client.register.metrics()
         Apply(c, Effect([rec EXCEPT !.pc = "metrics", !.op = "health", !.ended = 1],
                         <<>>, FALSE), 1)
    ELSE Apply(c, Progress(rec, step), 1)

\* handleToolCall(request), from its entry to the first await that suspends
HandleToolCall(c, request) ==
    /\ calls[c].pc = "idle"
    /\ \A d \in CallIds : d < c => calls[d].pc # "idle"
    /\ Cardinality(Entered) < env.load.calls
    /\ Cardinality(Open) < env.load.open
    /\ request \in env.load.menu
    /\ Start(c, [IdleCall EXCEPT !.request = request, !.trail = Stages(request)],
             ToolStart(request))
    /\ UNCHANGED <<env, now, dispatched, sanIn, sanOut, sanPc, parseIn, parseOut>>

\* the limiter launches the job at the head of its queue
Dispatch ==
    /\ limiter.queue # <<>>
    /\ limiter.running < maxConcurrent
    /\ now >= limiter.nextStart
    /\ LET c == Head(limiter.queue)
           rec == calls[c]
           sent == IF rec.endpoint = "/search"
                   THEN [endpoint |-> "/search", op |-> rec.op, body |-> Stringify(rec.searchReq)]
                   ELSE [endpoint |-> "/chat/completions", op |-> rec.op,
                         body |-> FullRequest(rec.chatReq)]
       IN calls' = [calls EXCEPT ![c] = [rec EXCEPT !.pc = "inflight",
                                                   !.netCalls = @ + 1,
                                                   !.wire = Append(@, sent)]]
    /\ limiter' = [queue |-> Tail(limiter.queue),
                   running |-> limiter.running + 1,
                   nextStart |-> NextStart(now)]
    /\ dispatched' = Append(dispatched, now)
    /\ UNCHANGED <<env, now, cache, metrics, sanIn, sanOut, sanPc, parseIn, parseOut>>

Limited(c) == calls[c].pc = "inflight" /\ calls[c].endpoint # "/models"

\* a limiter that keeps the slot of a job that ended
ReleaseNothing == limiter

\* the job of call c ends: the limiter frees its slot
Release == [limiter EXCEPT !.running = @ - 1]

\* a network call of call c ended and the call goes on as eff says: the
\* limiter frees the slot of the job and may be handed the next one
Resume(c, rec, eff) ==
    \E e \in {eff} :
        /\ calls' = [calls EXCEPT ![c] = e.rec]
        /\ cache' = CacheSetAll(cache, e.sets)
        /\ limiter' = IF e.enqueue THEN [Release EXCEPT !.queue = Append(@, c)] ELSE Release
        /\ metrics' = Metered(rec, e.rec, 0)

\* call c returns: rec is its record before the step, new the one after
Settle(c, rec, new) ==
    \E n \in {new} :
        /\ calls' = [calls EXCEPT ![c] = n]
        /\ metrics' = Metered(rec, n, 0)

\* what the operation that asked does with the outcome of its chat
\* completion: the older ask(), inside its simulateSearch, goes on to its
\* own chat completion; every other operation brings the call to its end
ChatOutcome(rec, outcome) ==
    IF rec.op = "askSimulate"
    THEN ProgressAskChat(rec, SimulateSearchResult(rec.searchReq, outcome))
    ELSE Finish(rec, AfterChat(rec.op, rec.searchReq, outcome))

\* chatCompletion caches the body and returns it
ChatReplied(c, rec, body) ==
    Resume(c, rec, AddSets(ChatOutcome(rec, Ok(body)),
                           <<[key |-> ChatCacheKey(rec.chatReq), value |-> body]>>))

\* the body of an upstream that echoes the model of the request it received
EchoBody(rec) ==
    ChatBody(Str(<<"Mock response for model: ">>
                 \o (IF "model" \in DOMAIN rec.wire[Len(rec.wire)].body
                     THEN rec.wire[Len(rec.wire)].body.model.s
                     ELSE <<"default">>)),
             <<>>)

\* the bodies POST /chat/completions may answer the pending request of a call
ChatBodiesOf(rec) ==
    ChatBodies(rec.op) \cup (IF rec.op = "ask" /\ rec.pc = "inflight" THEN {EchoBody(rec)} ELSE {})

\* the record of a call that received body from the upstream
Replied(rec, body) ==
    [rec EXCEPT !.reply = IF rec.op = "ask" /\ body = EchoBody(rec) THEN "echo" ELSE "body"]

\* POST /chat/completions answers with a body: chatCompletion caches it and
\* returns it to the operation that asked
ChatReplies(c, body) ==
    /\ Limited(c) /\ calls[c].endpoint = "/chat/completions"
    /\ body \in ChatBodiesOf(calls[c])
    /\ \E rec \in {Replied(calls[c], body)} : ChatReplied(c, rec, body)
    /\ UNCHANGED <<env, now, dispatched, sanIn, sanOut, sanPc, parseIn, parseOut>>

\* a chatCompletion that stores a body for the request whose POST failed
ChatFailedStores(c, rec, f) ==
    Resume(c, rec, AddSets(ChatOutcome(rec, Threw(ChatError(f))),
                           <<[key |-> ChatCacheKey(rec.chatReq), value |-> NoChoicesBody]>>))

\* chatCompletion throws the error of its POST to the operation that asked
ChatFailed(c, rec, f) == Resume(c, rec, ChatOutcome(rec, Threw(ChatError(f))))

\* the record of a call whose request failed with f
Unanswered(rec, f) ==
    [rec EXCEPT !.upFailed = TRUE, !.reply = IF f = Timeout THEN "timeout" ELSE "failed"]

\* POST /chat/completions fails or times out: chatCompletion throws
ChatFails(c, f) ==
    /\ Limited(c) /\ calls[c].endpoint = "/chat/completions"
    /\ f \in Failures
    /\ \E rec \in {Unanswered(calls[c], f)} : ChatFailed(c, rec, f)
    /\ UNCHANGED <<env, now, dispatched, sanIn, sanOut, sanPc, parseIn, parseOut>>

\* what the caller of liveSearch does with the response of POST /search:
\* the older ask() goes on to its chat completion, grok_search returns
SearchOutcome(rec, body) ==
    IF rec.op = "askSearch" THEN ProgressAskChat(rec, Ok(body))
    ELSE Finish(rec, FinSearch(FormatSearch(rec.searchReq.query, body), <<>>, body))

\* liveSearch caches the response of POST /search and returns it
SearchReplied(c, rec, body) ==
    Resume(c, rec, AddSets(SearchOutcome(rec, body),
                           <<[key |-> SearchCacheKey(rec.searchReq), value |-> body]>>))

\* POST /search answers (simulated-search source): the response is cached
\* under the search key and returned
SearchReplies(c, body) ==
    /\ Limited(c) /\ calls[c].endpoint = "/search"
    /\ body \in SearchBodies
    /\ SearchReplied(c, calls[c], body)
    /\ UNCHANGED <<env, now, dispatched, sanIn, sanOut, sanPc, parseIn, parseOut>>

\* liveSearch returns this.simulateSearch(request)
SearchFailed(c, rec) ==
    \E chatReq \in {SimulateChatRequest(rec.searchReq)} :
        Resume(c, rec, IF rec.op = "askSearch" THEN ProgressAskSimulate(rec)
                       ELSE ProgressChat(rec, "simulateSearch", chatReq, rec.searchReq))

\* POST /search fails with an axios error: liveSearch falls back to
\* simulateSearch, which starts a chat completion
SearchFails(c, f) ==
    /\ Limited(c) /\ calls[c].endpoint = "/search"
    /\ f \in {Http404, Timeout}
    /\ \E rec \in {Unanswered(calls[c], f)} : SearchFailed(c, rec)
    /\ UNCHANGED <<env, now, dispatched, sanIn, sanOut, sanPc, parseIn, parseOut>>

\* the outcomes of GET /models: a body whose data lists the models, a body
\* without data, a body whose data cannot be mapped to ids (the TypeError is
\* thrown inside the try), a transport failure, the timeout
ModelsOutcomes == {"listed", "nodata", "unmappable", "failed", "timeout"}

\* what getModels returns for the outcome of GET /models
ModelsOf(outcome) ==
    IF outcome = "listed" THEN ModelsListed
    ELSE IF outcome = "nodata" THEN ModelsDefault
    ELSE ModelsFallback

\* the record of a grok_models call once GET /models has come to outcome
ModelsGot(rec, outcome) ==
    [rec EXCEPT !.reply = outcome, !.upFailed = outcome \in {"failed", "timeout"}]

\* GET /models answers or fails: getModels returns the ids, the default
\* list for a body without data, or the fallback list
ModelsDone(c, outcome) ==
    /\ calls[c].pc = "inflight" /\ calls[c].endpoint = "/models"
    /\ outcome \in ModelsOutcomes
    /\ Settle(c, calls[c], Complete(ModelsGot(calls[c], outcome),
                                    Fin(Ok(ModelsText(ModelsOf(outcome))), TRUE, <<>>)))
    /\ UNCHANGED <<env, now, cache, limiter, dispatched, sanIn, sanOut, sanPc, parseIn, parseOut>>

HealthyText == <<"OK: Grok 4 MCP Server healthy">>

\* grok_health returns: the envelope carries the metrics beside the content
HealthReturned(rec) ==
    [Complete(rec, Fin(Ok(HealthyText), FALSE, <<>>))
       EXCEPT !.result = Returned([content |-> <<[type |-> "text", text |-> HealthyText]>>,
                                   metrics |-> "snapshot"])]

\* client.register.metrics() resolves: grok_health returns
MetricsDone(c) ==
    /\ calls[c].pc = "metrics"
    /\ Settle(c, calls[c], HealthReturned(calls[c]))
    /\ UNCHANGED <<env, now, cache, limiter, dispatched, sanIn, sanOut, sanPc, parseIn, parseOut>>

\* client.register.metrics() rejects: the await throws inside the try, after
\* end() has run, and the catch block answers
MetricsFails(c) ==
    /\ calls[c].pc = "metrics"
    /\ Settle(c, calls[c],
              Complete(calls[c], Fin(Threw(PlainError(<<"metrics collection failed">>)),
                                     FALSE, <<>>)))
    /\ UNCHANGED <<env, now, cache, limiter, dispatched, sanIn, sanOut, sanPc, parseIn, parseOut>>

\* time passes: as long as a job waits for its start time and, after the
\* server sat idle, for a few steps besides
Tick ==
    /\ sanPc = "off"
    /\ \/ now >= cacheTtl /\ now - cacheTtl < MaxTicks * TickMs
       \/ limiter.queue # <<>> /\ now < limiter.nextStart
    /\ now' = now + TickMs
    /\ UNCHANGED <<env, calls, cache, limiter, dispatched, metrics, sanIn, sanOut, sanPc, parseIn, parseOut>>

\* the server sits idle between two calls until the clock shows the next
\* multiple of the ttl of the cache
Lapse ==
    /\ sanPc = "off"
    /\ env.load.lapse
    /\ Open = {} /\ Entered # {} /\ Cardinality(Entered) < env.load.calls
    /\ now < cacheTtl
    /\ now' = cacheTtl
    /\ UNCHANGED <<env, calls, cache, limiter, dispatched, metrics, sanIn, sanOut, sanPc, parseIn, parseOut>>

Init ==
    /\ env \in Envs
    /\ now = 0
    /\ calls = [c \in CallIds |-> IdleCall]
    /\ cache = <<>>
    /\ limiter = [queue |-> <<>>, running |-> 0, nextStart |-> 0]
    /\ dispatched = <<>>
    /\ metrics = NoMetrics
    /\ PipelineIdle

Next ==
    \/ \E c \in CallIds : \E request \in AllRequests : HandleToolCall(c, request)
    \/ Dispatch
    \/ \E c \in CallIds : \E body \in ChatBodiesOf(calls[c]) : ChatReplies(c, body)
    \/ \E c \in CallIds : \E f \in Failures : ChatFails(c, f)
    \/ \E c \in CallIds : \E body \in SearchBodies : SearchReplies(c, body)
    \/ \E c \in CallIds : \E f \in {Http404, Timeout} : SearchFails(c, f)
    \/ \E c \in CallIds : \E outcome \in ModelsOutcomes : ModelsDone(c, outcome)
    \/ \E c \in CallIds : MetricsDone(c)
    \/ \E c \in CallIds : MetricsFails(c)
    \/ Tick
    \/ Lapse

Spec == Init /\ [][Next]_vars

\* what the upstream, or the metrics registry, may do for the pending
\* request of call c: answer it, fail it, or let it time out
Answers(c) ==
    \/ \E body \in ChatBodiesOf(calls[c]) : ChatReplies(c, body)
    \/ \E f \in Failures : ChatFails(c, f)
    \/ \E body \in SearchBodies : SearchReplies(c, body)
    \/ \E f \in {Http404, Timeout} : SearchFails(c, f)
    \/ \E outcome \in ModelsOutcomes : ModelsDone(c, outcome)
    \/ MetricsDone(c)
    \/ MetricsFails(c)

\* the same program when every request sent gets an answer, a failure or
\* its timeout (axios timeout: 60000), the limiter launches a job that is
\* due, and the clock goes on
FairSpec ==
    /\ Init /\ [][Next]_vars
    /\ WF_vars(Dispatch)
    /\ WF_vars(Tick)
    /\ \A c \in CallIds : WF_vars(Answers(c))

(***************************************************************************)
(* sanitize applied to one value: the specification SpecSanitize.          *)
(***************************************************************************)
SanChars == {"a", "<", ">", "\"", "'", Backtick, "$"}
SanStrings == UNION {[1..n -> SanChars] : n \in 0..MaxStrLen}
SanKeys ==
    {<<"k">>, <<"$", "k">>, <<"k", "$">>, <<"<">>, ProtoChars, <<"x">> \o ProtoChars \o <<"y">>,
     <<"_", "_", "p", "r", "o", "t", "o">>}
SanNested == {Str(<<"a">>), Str(<<"<", "a", "<">>), Str(<<"'", Backtick>>), Num(15), Null}
SanInputs ==
    {Str(str) : str \in SanStrings}
    \cup {Num(15), Bool(TRUE), Null, Undef}
    \cup {Arr(<<x, y>>) : x \in SanNested, y \in SanNested}
    \cup {Obj(k :> x) : k \in SanKeys, x \in SanNested}
    \cup {Obj(k1 :> Arr(<<Obj(k2 :> x), x>>) @@ <<"k">> :> x) :
            k1 \in SanKeys, k2 \in SanKeys, x \in SanNested}

\* const safeArgs = sanitize(args)
Sanitize ==
    /\ sanPc = "start"
    /\ sanOut' = sanitize(sanIn)
    /\ sanPc' = "done"
    /\ UNCHANGED <<env, now, calls, cache, limiter, dispatched, metrics, sanIn, parseIn, parseOut>>

InitSanitize ==
    /\ env = [secret |-> Undef, variant |-> "native", load |-> Broad]
    /\ now = 0
    /\ calls = [c \in CallIds |-> IdleCall]
    /\ cache = <<>>
    /\ limiter = [queue |-> <<>>, running |-> 0, nextStart |-> 0]
    /\ dispatched = <<>>
    /\ metrics = NoMetrics
    /\ sanIn \in SanInputs
    /\ sanOut = Undef
    /\ sanPc = "start"
    /\ parseIn = Undef /\ parseOut = Undef

NextSanitize == Sanitize

SpecSanitize == InitSanitize /\ [][NextSanitize]_vars

(***************************************************************************)
(* parseSearchResults applied to one chat response: the specification      *)
(* SpecParse.                                                              *)
(***************************************************************************)
MaxFound == 3
MaxCited == 2

\* response texts: words and URLs; citations: URLs, one of which new URL()
\* rejects; max_results: absent, or an integer the schema lets through
ParseContents == UNION {[1..n -> {"see", UrlA, UrlB, UrlC}] : n \in 0..MaxFound}
ParseCitations == UNION {[1..n -> {UrlA, UrlB, UrlBad}] : n \in 0..MaxCited}
ParseLimits == {Undef, Num(0), Num(10), Num(20), Num(30), Num(-10)}

\* const results = this.parseSearchResults(content, citations, request.max_results)
Parse ==
    /\ parseIn # Undef /\ parseOut = Undef
    /\ parseOut' = parseSearchResults(parseIn.content, parseIn.citations, parseIn.maxResults)
    /\ UNCHANGED <<env, now, calls, cache, limiter, dispatched, metrics, sanIn, sanOut, sanPc,
                   parseIn>>

InitParse ==
    /\ env = [secret |-> Undef, variant |-> "native", load |-> Broad]
    /\ now = 0
    /\ calls = [c \in CallIds |-> IdleCall]
    /\ cache = <<>>
    /\ limiter = [queue |-> <<>>, running |-> 0, nextStart |-> 0]
    /\ dispatched = <<>>
    /\ metrics = NoMetrics
    /\ sanIn = Undef /\ sanOut = Undef /\ sanPc = "off"
    /\ parseIn \in [content : ParseContents, citations : ParseCitations,
                     maxResults : ParseLimits]
    /\ parseOut = Undef

NextParse == Parse

SpecParse == InitParse /\ [][NextParse]_vars

(***************************************************************************)
(* Properties.                                                             *)
(***************************************************************************)
Done(c) == calls[c].pc = "done"
ToolOf(c) == calls[c].request.params.name
TextOf(c) == calls[c].result.envelope.content[1].text

\* C1: every finished tool call has returned an envelope
\* {content:[{type:'text', text}]}, never thrown or rejected, and when the
\* call failed the text is 'Error: ' followed by a message.
C1_AlwaysEnvelope ==
    \A c \in CallIds :
        Done(c) =>
            /\ calls[c].result.kind = "returned"
            /\ Len(calls[c].result.envelope.content) = 1
            /\ calls[c].result.envelope.content[1].type = "text"
            /\ calls[c].failed =>
                   /\ Head(TextOf(c)) = "Error: "
                   /\ Len(TextOf(c)) >= 2

C1_Witness ==
    \E c \in CallIds :
        /\ Done(c) /\ calls[c].failed
        /\ calls[c].thrown.name = "TypeError"
        /\ calls[c].result.kind = "returned"

\* C4: the start times of any two jobs launched by the limiter differ by at
\* least 500 ms.
C4_DispatchSpacing ==
    \A i, j \in 1..Len(dispatched) :
        i < j => dispatched[j] - dispatched[i] >= 500

C4_Witness == Len(dispatched) >= 2 /\ limiter.queue = <<>>

\* C8: a call whose tool name is not registered returns the text
\* 'Error: Unknown tool: <name>' without an error being thrown and without
\* any upstream call.
C8_UnknownTool ==
    \A c \in CallIds :
        (calls[c].pc # "idle" /\ ToolOf(c) \notin RegisteredTools) =>
            /\ Done(c)
            /\ calls[c].result.kind = "returned"
            /\ TextOf(c) = <<"Error: Unknown tool: ", ToolOf(c)>>
            /\ ~calls[c].failed
            /\ calls[c].netCalls = 0

C8_Witness == \E c \in CallIds : Done(c) /\ ToolOf(c) = "grok_foo"

\* what C9 asks of the sanitized value out of the value in
RemovedChars == {"<", ">", "\"", "'", Backtick}
HasProto(k) == \E i, j \in 1..Len(k) : SubSeq(k, i, j) = <<"_", "_", "p", "r", "o", "t", "o", "_", "_">>
KeptKey(k) == ~(Len(k) > 0 /\ Head(k) = "$") /\ ~HasProto(k)

RECURSIVE SanitizedFrom(_, _)
SanitizedFrom(in, out) ==
    IF in.t = "string"
    THEN /\ out.t = "string"
         /\ \A i \in 1..Len(out.s) : out.s[i] \notin RemovedChars
         /\ out.s = SelectSeq(in.s, LAMBDA ch : ch \notin RemovedChars)
    ELSE IF in.t = "array"
    THEN /\ out.t = "array"
         /\ Len(out.a) = Len(in.a)
         /\ \A i \in 1..Len(in.a) : SanitizedFrom(in.a[i], out.a[i])
    ELSE IF in.t = "object"
    THEN /\ out.t = "object"
         /\ DOMAIN out.o = {k \in DOMAIN in.o : KeptKey(k)}
         /\ \A k \in DOMAIN out.o : SanitizedFrom(in.o[k], out.o[k])
    ELSE out = in

\* C9: sanitize removes every occurrence of < > " ' ` from every string at
\* any depth, drops every key that begins with $ or contains __proto__, and
\* leaves all other keys and the values that are not strings unchanged.
C9_Sanitize == sanPc = "done" => SanitizedFrom(sanIn, sanOut)

C9_Witness ==
    /\ sanPc = "done"
    /\ sanIn = Obj(<<"k", "$">> :> Arr(<<Obj(<<"$", "k">> :> Str(<<"<", "a", "<">>)),
                                         Str(<<"<", "a", "<">>)>>)
                   @@ <<"k">> :> Str(<<"<", "a", "<">>))
    /\ sanOut = Obj(<<"k", "$">> :> Arr(<<EmptyObj, Str(<<"a">>)>>) @@ <<"k">> :> Str(<<"a">>))

\* the calls that carry the same request as call c
SameRequest(c) == {d \in CallIds : calls[d].pc # "idle" /\ calls[d].request = calls[c].request}

\* C2: identical grok_chat calls within the cache TTL make exactly one
\* upstream call in total and all of them answer what the first one
\* answered (stated for calls none of whose upstream calls failed).
C2_OneUpstreamCall ==
    \A c \in CallIds :
        (/\ Done(c) /\ ToolOf(c) = "grok_chat"
         /\ Cardinality(SameRequest(c)) >= 2
         /\ \A d \in SameRequest(c) : Done(d) /\ ~calls[d].upFailed /\ ~calls[d].failed
         /\ now <= cacheTtl) =>
            /\ Cardinality({d \in SameRequest(c) : calls[d].netCalls > 0}) = 1
            /\ \A d \in SameRequest(c) : calls[d].netCalls <= 1
            /\ \A d \in SameRequest(c) : calls[d].result = calls[c].result

\* C3: at most 2 network calls to the upstream are in flight at any instant.
InFlight == {c \in CallIds : calls[c].pc = "inflight"}
C3_AtMostTwoInFlight == Cardinality(InFlight) <= 2

\* C5: when the upstream call made for liveSearch fails, liveSearch still
\* returns a response with a non-empty results array and the call does not
\* end in an error.
C5_SearchFallback ==
    \A c \in CallIds :
        (Done(c) /\ ToolOf(c) = "grok_search" /\ calls[c].upFailed) =>
            /\ ~calls[c].failed
            /\ calls[c].searchResp # Undef
            /\ Len(calls[c].searchResp.results) > 0

\* the arguments of a call do not pass the schema of its tool (for
\* grok_search, after the coercion of max_results)
FailsSchema(request) ==
    LET safeArgs == sanitize(request.params.arguments)
    IN IF request.params.name = "grok_ask" THEN ~grokAskSchema(safeArgs)
       ELSE IF request.params.name = "grok_chat" THEN ~grokChatSchema(safeArgs)
       ELSE IF request.params.name = "grok_search"
       THEN safeArgs.t # "object" \/ ~grokSearchSchema(CoerceMaxResults(safeArgs))
       ELSE FALSE

\* C6: a grok_ask, grok_chat or grok_search call whose sanitized arguments
\* fail the schema ends in a ValidationError response and makes no
\* upstream call.
C6_ValidationRejects ==
    \A c \in CallIds :
        (calls[c].pc # "idle" /\ FailsSchema(calls[c].request)) =>
            /\ Done(c)
            /\ calls[c].failed
            /\ calls[c].thrown.name = "ValidationError"
            /\ calls[c].netCalls = 0

\* the token of a request is not the configured secret
WrongToken(request) ==
    LET token == AuthToken(request)
    IN token = Undef \/ token # env.secret

\* C7: with a shared secret configured, a call with no token or with a
\* token that differs from the secret is rejected with an AuthError
\* response and makes no upstream call.
C7_AuthRejects ==
    \A c \in CallIds :
        (calls[c].pc # "idle" /\ env.secret # Undef /\ WrongToken(calls[c].request)) =>
            /\ Done(c)
            /\ calls[c].failed
            /\ calls[c].thrown.name = "AuthError"
            /\ calls[c].netCalls = 0

\* C10: an error response carries the message of the failure only for a
\* ValidationError, AuthError or ExternalServiceError; any other failure
\* gives 'Error: Internal server error'.
C10_NoLeak ==
    \A c \in CallIds :
        (Done(c) /\ calls[c].failed
            /\ calls[c].thrown.name \notin {"ValidationError", "AuthError", "ExternalServiceError"}) =>
            TextOf(c) = <<"Error: ", "Internal server error">>

\* C11: every finished tool call has been counted in the request counter
\* under its tool name, in the error counter under its tool name when it
\* failed, and has recorded its latency in the histogram.
C11_MetricsPerTool ==
    \A c \in CallIds :
        Done(c) =>
            /\ Series(metrics.requests, ToolOf(c)) >= 1
            /\ calls[c].failed => Series(metrics.errors, ToolOf(c)) >= 1
            /\ calls[c].ended >= 1

\* C12: a grok_models call never ends in an error, and whenever GET /models
\* did not deliver a list of models (transport failure, timeout, malformed
\* body) the response lists the hard-coded fallback identifiers.
C12_ModelsFallback ==
    \A c \in CallIds :
        (Done(c) /\ ToolOf(c) = "grok_models") =>
            /\ ~calls[c].failed
            /\ calls[c].result.kind = "returned"
            /\ calls[c].reply # "listed" => TextOf(c) = ModelsText(ModelsFallback)

\* C13: a grok_test_connection call never ends in an error: it answers the
\* success message when its chat completion succeeded (or was served from
\* the cache) and the failure message when the chat completion failed.
C13_TestConnection ==
    \A c \in CallIds :
        (Done(c) /\ ToolOf(c) = "grok_test_connection") =>
            /\ ~calls[c].failed
            /\ calls[c].result.kind = "returned"
            /\ calls[c].ended = 1
            /\ TextOf(c) = IF calls[c].upFailed THEN NotConnectedText ELSE ConnectedText

C13_Witness ==
    \E c \in CallIds :
        /\ Done(c) /\ ToolOf(c) = "grok_test_connection"
        /\ calls[c].upFailed /\ calls[c].netCalls = 1
        /\ TextOf(c) = NotConnectedText

\* the max_results a grok_search request gives, when it is a number that is
\* not an integer and the other arguments are valid
GivenMaxResults(c) == Get(sanitize(calls[c].request.params.arguments), K_max_results)
FloatMaxResults(c) ==
    /\ calls[c].pc # "idle"
    /\ ToolOf(c) = "grok_search"
    /\ calls[c].request.params.arguments.t = "object"
    /\ zString(Get(sanitize(calls[c].request.params.arguments), K_query))
    /\ zNumber(GivenMaxResults(c))
    /\ GivenMaxResults(c).n % 10 # 0

\* the number without its fraction (truncation) and the greatest integer
\* below it (rounding down), as counts of tenths
Truncated(n) == IF n >= 0 THEN (n \div 10) * 10 ELSE 0 - (((0 - n) \div 10) * 10)
RoundedDown(n) == (n \div 10) * 10

SuppliesModel(c) ==
    /\ ToolOf(c) = "grok_ask"
    /\ calls[c].request.params.arguments.t = "object"
    /\ K_model \in DOMAIN calls[c].request.params.arguments.o
    /\ calls[c].request.params.arguments.o[K_model].t = "string"
AskedModel(c) == calls[c].request.params.arguments.o[K_model]

\* text.includes(s)
IncludesSeq(text, s) ==
    \E i \in 1..(Len(text) + 1) :
        /\ i + Len(s) - 1 <= Len(text)
        /\ SubSeq(text, i, i + Len(s) - 1) = s

\* an identifier that is not empty and holds none of the characters
\* sanitize removes from strings
PlainIdentifier(m) == m.s # <<>> /\ \A i \in 1..Len(m.s) : m.s[i] \notin RemovedChars

\* call c asked with model m: m is the model ask() was given, the model of
\* every chat request ask() sent, and part of the text when the upstream
\* echoed the model it was asked for
ModelCarried(c, m) ==
    /\ calls[c].chatReq.model = m
    /\ \A i \in 1..Len(calls[c].wire) :
           calls[c].wire[i].op = "ask" => calls[c].wire[i].body.model = m
    /\ (Done(c) /\ calls[c].reply = "echo") => IncludesSeq(TextOf(c), m.s)

\* C15 as stated: for every grok_ask call that supplies a model argument,
\* that exact identifier is the model passed to ask(), is carried in the
\* chat request sent to the upstream, and an upstream echoing the requested
\* model yields a response containing it.
C15_ModelCarried ==
    \A c \in CallIds :
        (SuppliesModel(c) /\ calls[c].op = "ask") => ModelCarried(c, AskedModel(c))

\* C15: for every grok_ask call that supplies as its model a non-empty
\* identifier free of the characters the sanitizer removes (< > " ' `),
\* that exact identifier is the model passed to ask(), is carried in the
\* chat request sent to the upstream, and an upstream echoing the requested
\* model yields a response containing it.
C15_PlainModelCarried ==
    \A c \in CallIds :
        (SuppliesModel(c) /\ PlainIdentifier(AskedModel(c)) /\ calls[c].op = "ask") =>
            ModelCarried(c, AskedModel(c))

C15_Witness ==
    \E c \in CallIds :
        /\ SuppliesModel(c) /\ AskedModel(c) = ModelCode
        /\ Done(c) /\ calls[c].reply = "echo" /\ calls[c].netCalls = 1
        /\ calls[c].wire[1].body.model = ModelCode
        /\ TextOf(c) = <<"Mock response for model: ", "grok-code-fast-1">>

\* a grok_ask request with a question and include_search: true
AsksWithSearch(c) ==
    /\ ToolOf(c) = "grok_ask"
    /\ calls[c].request.params.arguments.t = "object"
    /\ {K_question, K_include_search} \subseteq DOMAIN calls[c].request.params.arguments.o
    /\ calls[c].request.params.arguments.o[K_include_search] = Bool(TRUE)

\* the argument k of the request of call c as the handler reads it
AskArg(c, k) ==
    IF k \in DOMAIN calls[c].request.params.arguments.o
    THEN sanitize(calls[c].request.params.arguments.o[k])
    ELSE Undef

\* C16: ask with search requested performs no separate search call: the
\* one request it sends upstream is a chat completion that carries the
\* search parameters, and its messages are the optional system prompt
\* followed by the single user message.
C16_SearchInChatRequest ==
    \A c \in CallIds :
        (AsksWithSearch(c) /\ calls[c].netCalls >= 1) =>
            /\ calls[c].netCalls = 1
            /\ calls[c].wire[1].endpoint = "/chat/completions"
            /\ calls[c].wire[1].op = "ask"
            /\ "search_parameters" \in DOMAIN calls[c].wire[1].body
            /\ calls[c].wire[1].body.search_parameters = AskSearchParameters
            /\ calls[c].wire[1].body.messages =
                   Arr(AskMessages(AskArg(c, K_question), AskArg(c, K_context),
                                   AskArg(c, K_system_prompt)))

\* liveSearch returned a response to the grok_search call c
SearchSucceeded(c) ==
    /\ Done(c) /\ ToolOf(c) = "grok_search"
    /\ ~calls[c].failed /\ calls[c].searchResp # Undef

\* C17: under both search strategies a successful liveSearch result is
\* stored in the cache under the search-specific key, and an identical
\* request repeated within the TTL gets the same result without any
\* upstream call.
C17_SearchCached ==
    \A c \in CallIds :
        (SearchSucceeded(c) /\ now <= cacheTtl) =>
            /\ SearchCacheKey(calls[c].searchReq) \in DOMAIN cache
            /\ cache[SearchCacheKey(calls[c].searchReq)].value = calls[c].searchResp
            /\ \A d \in SameRequest(c) :
                   d > c => /\ calls[d].netCalls = 0
                            /\ calls[d].result = calls[c].result

\* the operations of the client that look up the cache
LookupOps == {"chat", "ask", "testConnection", "liveSearch", "simulateSearch"}

\* in this step call c takes up an operation of the client
TakesUp(c) == calls'[c].op # calls[c].op /\ calls'[c].op \in LookupOps

\* the cache holds an entry under key whose age is at most the ttl / an
\* entry older than the ttl
FreshEntry(key) == key \in DOMAIN cache /\ now - cache[key].at <= cacheTtl
ExpiredEntry(key) == key \in DOMAIN cache /\ now - cache[key].at > cacheTtl

\* a step in which call c takes up an operation and ends without waiting
\* for the upstream, i.e. the lookup of the operation returned an entry:
\* the entry is the one under the key of the request and is not older than
\* the ttl
HitIsFresh(c) ==
    (TakesUp(c) /\ calls'[c].pc = "done") =>
        IF calls'[c].chatReq # <<>>
        THEN FreshEntry(ChatCacheKey(calls'[c].chatReq))
        ELSE /\ FreshEntry(SearchCacheKey(calls'[c].searchReq))
             /\ calls'[c].searchResp = cache[SearchCacheKey(calls'[c].searchReq)].value

\* a step in which call c takes up an operation whose entry has expired:
\* the request is queued for the upstream
ExpiredIsSent(c) ==
    /\ (TakesUp(c) /\ calls'[c].chatReq # <<>>
         /\ ExpiredEntry(ChatCacheKey(calls'[c].chatReq))) =>
            (calls'[c].pc = "queued" /\ calls'[c].endpoint = "/chat/completions")
    /\ (TakesUp(c) /\ calls'[c].op = "liveSearch" /\ calls'[c].chatReq = <<>>
         /\ ExpiredEntry(SearchCacheKey(calls'[c].searchReq))) =>
            (calls'[c].pc = "queued" /\ calls'[c].endpoint = "/search")

\* C18: a cache lookup by chatCompletion or liveSearch never returns an
\* entry stored more than the ttl (5 minutes) earlier; a request whose
\* entry has expired is sent to the upstream again.
C18_NoStaleEntry == [][\A c \in CallIds : HitIsFresh(c) /\ ExpiredIsSent(c)]_vars

\* a grok_chat call repeated after the entry of the first one expired went
\* to the upstream again and its response was stored anew
C18_Witness ==
    \E c, d \in CallIds :
        /\ c < d /\ calls[c].request = ReqChatHi /\ calls[d].request = ReqChatHi
        /\ Done(c) /\ Done(d) /\ ~calls[c].failed /\ ~calls[d].failed
        /\ calls[c].netCalls = 1 /\ calls[d].netCalls = 1
        /\ cache[ChatCacheKey(calls[d].chatReq)].at > cacheTtl

\* the prefix that names the operation of a tool
PrefixOf(tool) ==
    IF tool = "grok_ask" THEN "Grok ask failed"
    ELSE IF tool = "grok_chat" THEN "Grok chat failed"
    ELSE "Grok search failed"

UpstreamTools == {"grok_ask", "grok_chat", "grok_search"}

\* call c ended with an ExternalServiceError whose message starts with the
\* prefix of its tool, and answered 'Error: ' followed by that message
WrappedFailure(c) ==
    /\ calls[c].failed
    /\ calls[c].thrown.name = "ExternalServiceError"
    /\ Head(calls[c].thrown.message) = PrefixOf(ToolOf(c))
    /\ calls[c].result = Returned(Envelope(<<"Error: ">> \o calls[c].thrown.message))

\* C19 as stated: every failure of an upstream call made for grok_ask,
\* grok_chat or grok_search reaches the pipeline as an ExternalServiceError
\* with the prefix naming the operation, and the response is 'Error: '
\* followed by that message.
C19_EveryFailureWrapped ==
    \A c \in CallIds :
        (Done(c) /\ ToolOf(c) \in UpstreamTools /\ calls[c].upFailed) => WrappedFailure(c)

\* C19: every failure of an upstream call that makes a grok_ask, grok_chat
\* or grok_search call fail reaches the pipeline as an ExternalServiceError
\* with the prefix naming the operation, and the response is 'Error: '
\* followed by that message; a failed search request from which the client
\* recovers does not fail the call.
C19_FailureWrapped ==
    \A c \in CallIds :
        (Done(c) /\ ToolOf(c) \in UpstreamTools /\ calls[c].upFailed /\ calls[c].failed) =>
            WrappedFailure(c)

C19_Witness ==
    \E c \in CallIds :
        /\ Done(c) /\ ToolOf(c) = "grok_chat" /\ calls[c].upFailed /\ calls[c].netCalls = 1
        /\ TextOf(c) = <<"Error: ", "Grok chat failed", ": ",
                         "Grok API Error: ", "500", " - ", "upstream failure">>

\* the request the call c ended on timed out, and no other operation of
\* the client took over after it
TimedOut(c) ==
    /\ Done(c) /\ calls[c].reply = "timeout"
    /\ calls[c].wire[Len(calls[c].wire)].op = calls[c].op

\* every call that was made has returned its response envelope; a call that
\* has returned stays so, and only finitely many calls are made
AllAnswered ==
    \A c \in CallIds :
        calls[c].pc # "idle" => (Done(c) /\ calls[c].result.kind = "returned")

\* C20 as stated: every tool call eventually produces a response
\* envelope, and an upstream call that times out ends the tool call with an
\* external-service failure response.
C20_TimeoutAlwaysFails ==
    /\ <>[]AllAnswered
    /\ [](\A c \in CallIds :
            (Done(c) /\ calls[c].reply = "timeout") =>
                (calls[c].failed /\ calls[c].thrown.name = "ExternalServiceError"))

\* C20: when every dispatched upstream call completes or hits its timeout
\* and the limiter is scheduled fairly, every tool call eventually produces
\* a response envelope; a timeout of the chat completion or search made for
\* grok_ask, grok_chat or grok_search, when no fallback takes over, ends the
\* call with an external-service failure response.
C20_EveryCallAnswers ==
    /\ <>[]AllAnswered
    /\ [](\A c \in CallIds :
            (TimedOut(c) /\ ToolOf(c) \in UpstreamTools) => WrappedFailure(c))

\* a grok_chat call that waited in the queue of the limiter, was launched,
\* timed out and answered the failure
C20_Witness ==
    \E c \in CallIds :
        /\ TimedOut(c) /\ ToolOf(c) = "grok_chat" /\ calls[c].netCalls = 1
        /\ dispatched[Len(dispatched)] >= minTime
        /\ WrappedFailure(c)

\* the steps of the pipeline in the order the state machine gives them
StepOrder ==
    <<"received", "authenticating", "sanitizing", "validating", "dispatching", "responding">>
Rank(step) == CHOOSE i \in 1..Len(StepOrder) : StepOrder[i] = step
Ran(c, step) == \E i \in 1..Len(calls[c].trail) : calls[c].trail[i] = step
SchemaTools == {"grok_ask", "grok_chat", "grok_search"}

\* C21: each tool call passes through the steps received, authenticating
\* (when a shared secret is configured), sanitizing, validating, dispatching,
\* responding in that order; a step runs only after the steps before it; a
\* call that fails validation or authentication does not dispatch; and each
\* call responds exactly once, as its last step.
C21_PipelineOrder ==
    \A c \in CallIds :
        calls[c].pc # "idle" =>
            /\ Head(calls[c].trail) = "received"
            /\ \A i \in 1..(Len(calls[c].trail) - 1) :
                   Rank(calls[c].trail[i]) < Rank(calls[c].trail[i + 1])
            /\ Done(c) <=> Ran(c, "responding")
            /\ (env.secret # Undef /\ Ran(c, "sanitizing")) => Ran(c, "authenticating")
            /\ (Ran(c, "validating") \/ Ran(c, "dispatching")) => Ran(c, "sanitizing")
            /\ (Ran(c, "dispatching") /\ ToolOf(c) \in SchemaTools) => Ran(c, "validating")
            /\ (calls[c].failed /\ calls[c].thrown.name \in {"ValidationError", "AuthError"}) =>
                   ~Ran(c, "dispatching") /\ calls[c].netCalls = 0

\* the chat request body carries under field the value the caller gave, or
\* the configured default when the caller gave none
CarriesField(body, field, given, default) ==
    /\ field \in DOMAIN body
    /\ body[field] = IF given = Undef THEN default ELSE given

\* C22: the chat request sent upstream for a grok_ask or grok_chat call
\* carries, for each of model, temperature and max_tokens, the value the
\* caller supplied, or the configured default when the caller omitted it.
C22_DefaultsCarried ==
    \A c \in CallIds :
        (ToolOf(c) \in {"grok_ask", "grok_chat"} /\ calls[c].netCalls >= 1) =>
            \A i \in 1..Len(calls[c].wire) :
                calls[c].wire[i].op \in {"ask", "chat"} =>
                    /\ CarriesField(calls[c].wire[i].body, "model", AskArg(c, K_model),
                                    config.model)
                    /\ CarriesField(calls[c].wire[i].body, "temperature",
                                    AskArg(c, K_temperature), config.temperature)
                    /\ CarriesField(calls[c].wire[i].body, "max_tokens",
                                    AskArg(c, K_max_tokens), config.maxTokens)

\* parseSearchResults returned for a max_results that is absent or positive
Parsed == parseOut # Undef /\ ~parseOut.threw /\ ~(parseIn.maxResults # Undef /\ parseIn.maxResults.n <= 0)
ParseLimit == IF parseIn.maxResults = Undef THEN 10 ELSE parseIn.maxResults.n \div 10
Smaller(a, b) == IF a <= b THEN a ELSE b
\* the number of results made of citations, and the results after them
FromCitations == Smaller(ParseLimit, Len(parseIn.citations))
AfterCitations == SubSeq(parseOut.val, FromCitations + 1, Len(parseOut.val))
IsGeneric(r) == r.url = "https://grok.com" /\ r.source = "grok"
InText(url) == \E i \in 1..Len(parseIn.content) : parseIn.content[i] = url
Cited(url) == \E i \in 1..Len(parseIn.citations) : parseIn.citations[i] = url

\* C23: the results of the native extraction are, in this order, one
\* result per citation (the first max_results of them, 10 by default); then,
\* only when these are fewer than the limit, results for URLs of the text
\* that are not among the citations, at most as many as slots remain; and
\* the one generic result exactly when the two steps produced nothing.
C23_ExtractionOrder ==
    Parsed =>
        /\ Len(parseOut.val) >= FromCitations
        /\ \A i \in 1..FromCitations : parseOut.val[i].url = parseIn.citations[i]
        /\ IF FromCitations = 0 /\ \A i \in 1..Smaller(ParseLimit, Len(FoundUrls(parseIn.content))) :
                                      Cited(FoundUrls(parseIn.content)[i])
           THEN Len(parseOut.val) = 1 /\ IsGeneric(parseOut.val[1])
           ELSE /\ \A i \in 1..Len(parseOut.val) : ~IsGeneric(parseOut.val[i])
                /\ Len(parseOut.val) <= ParseLimit
                /\ \A i \in 1..Len(AfterCitations) :
                       InText(AfterCitations[i].url) /\ ~Cited(AfterCitations[i].url)
                /\ (FromCitations < ParseLimit /\ FoundUrls(parseIn.content) # <<>>
                     /\ ~Cited(FoundUrls(parseIn.content)[1])) =>
                       (AfterCitations # <<>>
                        /\ AfterCitations[1].url = FoundUrls(parseIn.content)[1])

\* one citation and a limit of two: the first URL of the text, which is not
\* the citation, fills the one slot left, the next one is not taken
C23_Witness ==
    /\ Parsed
    /\ parseIn.citations = <<UrlA>> /\ parseIn.maxResults = Num(20)
    /\ parseIn.content = <<UrlB, "see", UrlC>>
    /\ Len(parseOut.val) = 2
    /\ parseOut.val[1].url = UrlA /\ parseOut.val[2].url = UrlB

\* in this step the simulateSearch made for the grok_search call c gets the
\* body of its chat completion (from the upstream or from the cache)
SimulateGets(c, body) ==
    /\ calls[c].pc # "done" /\ calls'[c].pc = "done"
    /\ calls'[c].op = "simulateSearch" /\ calls'[c].reply \in {"body", "none"}
    /\ ChatCacheKey(calls'[c].chatReq) \in DOMAIN cache'
    /\ body = cache'[ChatCacheKey(calls'[c].chatReq)].value

\* the reply of the model holds a text and no JSON document
NotJson(body) ==
    /\ body.hasChoices /\ Len(body.choices) >= 1 /\ ~Falsy(body.choices[1].content)
    /\ \A i \in 1..Len(body.choices[1].content.s) :
           body.choices[1].content.s[i] \notin {JsonTwo, JsonNone}

\* the web-search URL for the characters of a query
WebSearchUrl(query) ==
    IF query = <<"t", "e", "s", "t">> THEN "https://www.google.com/search?q=test"
    ELSE IF query = <<"a", " ", "b", "&", "c">> THEN "https://www.google.com/search?q=a%20b%26c"
    ELSE "?"

\* C24: whenever the reply of the model to the simulated search holds no
\* JSON, the search returns exactly one result, whose URL is the web-search
\* URL of the query, with total_results 1, and the call does not fail.
C24_ParseFailureFallback ==
    [][\A c \in CallIds : \A body \in ChatBodies("simulateSearch") :
          (SimulateGets(c, body) /\ NotJson(body)) =>
              /\ ~calls'[c].failed
              /\ calls'[c].searchResp # Undef
              /\ Len(calls'[c].searchResp.results) = 1
              /\ calls'[c].searchResp.total_results = 1
              /\ calls'[c].searchResp.results[1].url =
                     WebSearchUrl(calls'[c].searchReq.query.s)]_vars

\* a search for 'a b&c' whose simulated reply was a broken JSON document
C24_Witness ==
    \E c \in CallIds :
        /\ Done(c) /\ calls[c].request = ReqSearchWords /\ calls[c].op = "simulateSearch"
        /\ ChatCacheKey(calls[c].chatReq) \in DOMAIN cache
        /\ cache[ChatCacheKey(calls[c].chatReq)].value = BodyJsonBroken
        /\ calls[c].searchResp.results[1].url = "https://www.google.com/search?q=a%20b%26c"
        /\ ~calls[c].failed

\* C25: every max_results that grok_search passes to liveSearch is a
\* positive integer; zero, a negative number or a value that is not a
\* number never reaches the client.
C25_RangeChecked ==
    \A c \in CallIds :
        (ToolOf(c) = "grok_search" /\ calls[c].searchReq # <<>>
            /\ calls[c].searchReq.max_results # Undef) =>
            /\ zInt(calls[c].searchReq.max_results)
            /\ calls[c].searchReq.max_results.n >= 10

\* in this step the request call c had sent to the upstream for its
\* chatCompletion or liveSearch fails or times out
UpstreamFails(c) ==
    /\ Limited(c)
    /\ calls'[c] # calls[c]
    /\ calls'[c].reply \in {"failed", "timeout"}

\* call c ended in the failure of its upstream request
FailedUpstream(c) ==
    Done(c) /\ calls[c].failed /\ calls[c].reply \in {"failed", "timeout"}

\* in this step call d is made, after every call made before it has ended
\* in the failure of its upstream request, call c with the same request
\* among them
RetryOf(c, d) ==
    /\ calls[d].pc = "idle" /\ calls'[d].pc # "idle"
    /\ FailedUpstream(c)
    /\ calls'[d].request = calls[c].request
    /\ \A e \in CallIds : calls[e].pc # "idle" => FailedUpstream(e)

\* in this step call c is made and its chatCompletion returns the body an
\* earlier successful upstream call stored
GotStoredBody(c) ==
    /\ calls[c].pc = "idle" /\ calls'[c].pc = "done"
    /\ calls'[c].chatReq # <<>>
    /\ FreshEntry(ChatCacheKey(calls'[c].chatReq))

\* C26: a failing upstream call of chatCompletion or liveSearch leaves the
\* cache as it is; the cache changes only in a step in which the upstream
\* answers a request (or liveSearch stores what it made of a stored body of
\* chatCompletion); and the next identical request after a failure is sent
\* to the upstream again instead of being answered out of the cache.
C26_FailureNotCached ==
    [][/\ \A c \in CallIds : UpstreamFails(c) => cache' = cache
       /\ cache' # cache =>
              \E c \in CallIds : /\ calls'[c] # calls[c]
                                 /\ calls'[c].reply \notin {"failed", "timeout"}
                                 /\ Limited(c) \/ GotStoredBody(c)
       /\ \A c, d \in CallIds :
              RetryOf(c, d) => /\ calls'[d].pc = "queued"
                               /\ calls'[d].result = IdleCall.result]_vars

\* a grok_chat call whose POST failed, and the same call made again, which
\* went to the upstream itself and was answered
C26_Witness ==
    \E c, d \in CallIds :
        /\ c < d /\ calls[c].request = ReqChatHi /\ calls[d].request = ReqChatHi
        /\ FailedUpstream(c) /\ calls[c].netCalls = 1
        /\ Done(d) /\ calls[d].netCalls = 1 /\ ~calls[d].failed
        /\ now < cacheTtl

\* the value of a counter: the sum over its series (the one without labels
\* is the only one the handler ever touches)
CounterValue(metric) == IF metric = <<>> THEN 0 ELSE Series(metric, NoLabels)
FailedCalls == {c \in CallIds : calls[c].failed}

\* C27: after every step the request counter equals the number of calls
\* that entered handleToolCall, the error counter has gone up at most once
\* for each call (once for each call that failed), neither counter has
\* gone down, and the error counter does not exceed the request counter.
C27_Counters ==
    [][/\ DOMAIN metrics'.requests \subseteq {NoLabels}
       /\ DOMAIN metrics'.errors \subseteq {NoLabels}
       /\ CounterValue(metrics'.requests) = Cardinality(Entered')
       /\ CounterValue(metrics'.errors) = Cardinality(FailedCalls')
       /\ CounterValue(metrics'.errors) - CounterValue(metrics.errors)
              <= Cardinality(FailedCalls' \ FailedCalls)
       /\ CounterValue(metrics'.requests) >= CounterValue(metrics.requests)
       /\ CounterValue(metrics'.errors) >= CounterValue(metrics.errors)
       /\ CounterValue(metrics'.errors) <= CounterValue(metrics'.requests)]_vars

\* three calls were made, one of them failed and another one did not
C27_Witness ==
    /\ CounterValue(metrics.requests) = 3
    /\ CounterValue(metrics.errors) = 1
    /\ \E c, d \in CallIds : Done(c) /\ calls[c].failed /\ Done(d) /\ ~calls[d].failed

\* C29: the latency timer of a tool call is stopped at most once on every
\* path, also when a failure occurs after it was stopped, so that the
\* histogram holds at most one observation for each call.
C29_TimerStoppedOnce ==
    /\ \A c \in CallIds : calls[c].ended <= 1
    /\ Series(metrics.observations, NoLabels) <= Cardinality(Entered)

\* a grok_test_connection call that has answered the success message
TestSucceeded(c) ==
    Done(c) /\ ToolOf(c) = "grok_test_connection" /\ TextOf(c) = ConnectedText

\* in this step the grok_test_connection call d is made
TestMade(d) ==
    /\ calls[d].pc = "idle" /\ calls'[d].pc # "idle"
    /\ calls'[d].request.params.name = "grok_test_connection"

OnlyStripped(c) ==
    LET a == calls[c].request.params.arguments
    IN /\ calls[c].pc # "idle"
       /\ ToolOf(c) = "grok_ask"
       /\ a.t = "object"
       /\ K_question \in DOMAIN a.o
       /\ a.o[K_question].t = "string"
       /\ Len(a.o[K_question].s) >= 1
       /\ \A i \in 1..Len(a.o[K_question].s) : a.o[K_question].s[i] \in RemovedChars

\* C30: a grok_ask whose question consists only of stripped characters is
\* sanitized to the empty question, fails validation with a ValidationError,
\* which is answered as 'Error: Invalid input for grok_ask', and makes no
\* upstream call.
C30_StrippedQuestionRejected ==
    \A c \in CallIds :
        OnlyStripped(c) =>
            /\ sanitize(calls[c].request.params.arguments).o[K_question] = Str(<<>>)
            /\ Done(c)
            /\ calls[c].failed
            /\ calls[c].thrown.name = "ValidationError"
            /\ calls[c].result = Returned(Envelope(<<"Error: ", "Invalid input for grok_ask">>))
            /\ calls[c].trail = <<"received", "sanitizing", "validating", "responding">>
            /\ calls[c].netCalls = 0
            /\ calls[c].op = IdleCall.op

C30_Witness ==
    \E c \in CallIds :
        /\ OnlyStripped(c)
        /\ Done(c)
        /\ calls[c].request.params.arguments.o[K_question] = Str(<<"<", "'", ">">>)
        /\ calls[c].thrown.name = "ValidationError"
        /\ CounterValue(metrics.errors) = 1

TypeOK ==
    /\ \A c \in CallIds : calls[c].pc \in {"idle", "queued", "inflight", "metrics", "done"}
    /\ limiter.running \in 0..maxConcurrent
====
